---------------------------- MODULE Spec2Model ----------------------------
(***************************************************************************)
(* Model of django-commoncontent.  The metadata layer                      *)
(* (src/src/commoncontent/schemas.py): the URL validator, the Open Graph   *)
(* structured properties and objects, and the Schema.org objects with     *)
(* the registry of their labels, filled while the module is loaded.  The   *)
(* content models and public views (models.py, views.py, urls.py): the     *)
(* copyright notice, the filter of live records, the page and article      *)
(* views, and the order of the articles of a series.                       *)
(*                                                                         *)
(* Python strings are sequences of one-character strings, so that parsing  *)
(* and escaping are computed character by character.  A rendered Open      *)
(* Graph string is the sequence of its lines; the line                     *)
(*   <meta property="{ns}:{key}" content="{content}" />\n                  *)
(* is the record [property |-> ns:key, content |-> content].               *)
(***************************************************************************)
EXTENDS Integers, Sequences, FiniteSets, TLC

VARIABLES
    pc,       \* position of the program: "import" while the module is loaded,
              \* then that of the caller: "call", "returned", "raised",
              \* "constructed", "rendered"
    call,     \* the call the caller made: function or class, and arguments
    obj,      \* the object the constructor yielded, NoObject before and on failure
    ret,      \* value returned by the last completed call
    exc,      \* exception raised by the last call, "none" if it returned
    defined,  \* the class statements of the module executed so far
    registry, \* ThingSchema._registry: the class registered under each label
    renders,  \* number of str() calls made on the object
    threads,  \* the threads of the process that use the registry: for each
              \* its position, the call it makes, its object and its result
    now,      \* the clock of the site, in ticks
    records,  \* the rows of the content tables of the site
    request,  \* the request the site handles
    response  \* the response to the last request

vars == <<pc, call, obj, ret, exc, defined, registry, renders, threads,
          now, records, request, response>>

\* what the single caller of the metadata layer does not touch
background == <<threads, now, records, request, response>>

---------------------------------------------------------------------------
(* Bounds of the model *)

\* longest tail appended to a scheme prefix when enumerating URL strings
MaxBodyLen == 5

\* longest image list passed to an Open Graph constructor
MaxImages == 2

\* the longest list of alternate locales passed to a constructor
MaxLocales == 2

\* the most str() calls the caller makes on one object
MaxRenders == 2

\* the number of threads that call the metadata layer concurrently
MaxThreads == 2

\* the last tick of the clock of the site
MaxTime == 3

\* the most requests the client sends
MaxRequests == 3

\* the most articles created
MaxArticles == 3

\* the most classes defined by the application after the module is loaded
MaxSubclasses == 2

---------------------------------------------------------------------------
(* Python values *)

None == [kind |-> "NoneType"]
PyStr(s) == [kind |-> "str", chars |-> s]
PyInt(n) == [kind |-> "int", num |-> n]
PyList(xs) == [kind |-> "list", items |-> xs]
PyObject(cls, fields) == [kind |-> "object", cls |-> cls, fields |-> fields]

PyDate(y, m, d) == [kind |-> "date", year |-> y, month |-> m, day |-> d]
PyDateTime(y, m, d, hh, mm, ss) ==
    [kind |-> "datetime", year |-> y, month |-> m, day |-> d,
     hour |-> hh, minute |-> mm, second |-> ss]
\* an instance of a django model whose __str__ returns s
Model(s) == [kind |-> "Model", str |-> s]
\* a member of an Enum class
EnumMember(cls, name) == [kind |-> "enum", cls |-> cls, name |-> name]

\* a class, as a value
Type(name) == [kind |-> "type", name |-> name]

\* a member of a django TextChoices class, whose str() is its value
TextChoice(value) == [kind |-> "TextChoices", value |-> value]

NoObject == [kind |-> "NoObject"]
NoCall == [fn |-> "none"]
NoValue == [kind |-> "NoValue"]

\* bool(v), as used by "if self.url:" and "if content:"
Truthy(v) ==
    CASE v.kind = "NoneType" -> FALSE
      [] v.kind = "str" -> Len(v.chars) > 0
      [] v.kind = "int" -> v.num # 0
      [] v.kind = "list" -> Len(v.items) > 0
      [] OTHER -> TRUE

IsNone(v) == v.kind = "NoneType"

SeqsUpTo(S, n) == UNION {[1..k -> S] : k \in 0..n}

\* index of the first occurrence of a character of cs in s at or after
\* position from (1-based), 0 when there is none: str.find
Find(s, cs, from) ==
    LET hits == {i \in from..Len(s) : s[i] \in cs}
    IN IF hits = {} THEN 0 ELSE CHOOSE i \in hits : \A j \in hits : i <= j

RECURSIVE Concat(_)
Concat(ss) == IF ss = <<>> THEN <<>> ELSE Head(ss) \o Concat(Tail(ss))

Digit(n) == <<"0", "1", "2", "3", "4", "5", "6", "7", "8", "9">>[n + 1]

\* str(n) of a non-negative int
RECURSIVE IntStr(_)
IntStr(n) == IF n < 10 THEN <<Digit(n)>> ELSE IntStr(n \div 10) \o <<Digit(n % 10)>>

Pad2(n) == IF n < 10 THEN <<"0">> \o IntStr(n) ELSE IntStr(n)
Pad4(n) == IF n < 10 THEN <<"0", "0", "0">> \o IntStr(n)
           ELSE IF n < 100 THEN <<"0", "0">> \o IntStr(n)
           ELSE IF n < 1000 THEN <<"0">> \o IntStr(n)
           ELSE IntStr(n)

\* isinstance(v, date): datetime is a subclass of date
IsDate(v) == v.kind \in {"date", "datetime"}

\* date.isoformat() and datetime.isoformat() of a naive datetime with
\* microsecond 0
isoformat(v) ==
    LET day == Pad4(v.year) \o <<"-">> \o Pad2(v.month) \o <<"-">> \o Pad2(v.day)
    IN IF v.kind = "date" THEN day
       ELSE day \o <<"T">> \o Pad2(v.hour) \o <<":">> \o Pad2(v.minute)
                \o <<":">> \o Pad2(v.second)

\* repr(s) of a str: quoted with ' unless s holds ' and no "
ReprStr(s) ==
    LET q == IF (\E i \in 1..Len(s) : s[i] = "'") /\ ~(\E i \in 1..Len(s) : s[i] = "\"")
             THEN "\"" ELSE "'"
        body == Concat([i \in 1..Len(s) |->
                         IF s[i] = q \/ s[i] = "\\" THEN <<"\\", s[i]>> ELSE <<s[i]>>])
    IN <<q>> \o body \o <<q>>

\* ", ".join(parts)
RECURSIVE JoinComma(_)
JoinComma(parts) ==
    IF parts = <<>> THEN <<>>
    ELSE IF Len(parts) = 1 THEN parts[1]
    ELSE parts[1] \o <<",", " ">> \o JoinComma(Tail(parts))

\* str(datetime) is isoformat(sep=" ")
SpaceForT(s) == [i \in 1..Len(s) |-> IF s[i] = "T" THEN " " ELSE s[i]]

\* str(v), the conversion format_html applies to its arguments.  A model
\* instance answers with its __str__; a list of strings with its repr.
StrOf(v) ==
    CASE v.kind = "NoneType" -> <<"N", "o", "n", "e">>
      [] v.kind = "str" -> v.chars
      [] v.kind = "int" -> IntStr(v.num)
      [] v.kind = "Model" -> v.str
      [] v.kind = "enum" -> v.cls \o <<".">> \o v.name
      [] v.kind = "TextChoices" -> v.value
      [] v.kind = "date" -> isoformat(v)
      [] v.kind = "datetime" -> SpaceForT(isoformat(v))
      [] v.kind = "list" ->
           <<"[">> \o JoinComma([i \in 1..Len(v.items) |-> ReprStr(v.items[i].chars)])
                  \o <<"]">>

\* html.escape(s, quote=True): django.utils.html.escape
EscapeChar(c) ==
    CASE c = "&" -> <<"&", "a", "m", "p", ";">>
      [] c = "<" -> <<"&", "l", "t", ";">>
      [] c = ">" -> <<"&", "g", "t", ";">>
      [] c = "\"" -> <<"&", "q", "u", "o", "t", ";">>
      [] c = "'" -> <<"&", "#", "x", "2", "7", ";">>
      [] OTHER -> <<c>>

escape(s) == Concat([i \in 1..Len(s) |-> EscapeChar(s[i])])

---------------------------------------------------------------------------
(* urllib.parse.urlparse, as far as validate_http_url reads its result:    *)
(* the scheme and the network location.                                    *)

AsciiLower == <<"a", "b", "c", "d", "e", "f", "g", "h", "i", "j", "k", "l", "m",
                "n", "o", "p", "q", "r", "s", "t", "u", "v", "w", "x", "y", "z">>
AsciiUpper == <<"A", "B", "C", "D", "E", "F", "G", "H", "I", "J", "K", "L", "M",
                "N", "O", "P", "Q", "R", "S", "T", "U", "V", "W", "X", "Y", "Z">>
Range(f) == {f[i] : i \in DOMAIN f}
IsAsciiAlpha(c) == c \in Range(AsciiLower) \cup Range(AsciiUpper)
scheme_chars == Range(AsciiLower) \cup Range(AsciiUpper)
                  \cup {"0", "1", "2", "3", "4", "5", "6", "7", "8", "9", "+", "-", "."}

LowerChar(c) ==
    IF c \in Range(AsciiUpper)
    THEN AsciiLower[CHOOSE i \in 1..26 : AsciiUpper[i] = c]
    ELSE c
lower(s) == [i \in 1..Len(s) |-> LowerChar(s[i])]

\* the characters of _WHATWG_C0_CONTROL_OR_SPACE and
\* _UNSAFE_URL_BYTES_TO_REMOVE that the modelled strings can hold
C0_CONTROL_OR_SPACE == {" ", "\t", "\n", "\r"}
UNSAFE_URL_BYTES_TO_REMOVE == {"\t", "\r", "\n"}

RECURSIVE lstrip(_)
lstrip(s) ==
    IF s # <<>> /\ Head(s) \in C0_CONTROL_OR_SPACE THEN lstrip(Tail(s)) ELSE s

RemoveUnsafe(s) == SelectSeq(s, LAMBDA c : c \notin UNSAFE_URL_BYTES_TO_REMOVE)

\* the scheme of url and what follows it, given the index i of the first ":"
SplitScheme(url, i) ==
    IF /\ i > 1
       /\ IsAsciiAlpha(url[1])
       /\ \A k \in 1..(i - 1) : url[k] \in scheme_chars
    THEN [scheme |-> lower(SubSeq(url, 1, i - 1)), url |-> SubSeq(url, i + 1, Len(url))]
    ELSE [scheme |-> <<>>, url |-> url]

\* _splitnetloc(url, 2)[0], given the index wdelim of the first of "/?#"
\* behind the two slashes, 0 when there is none
splitnetloc(url, wdelim) ==
    SubSeq(url, 3, IF wdelim = 0 THEN Len(url) ELSE wdelim - 1)

\* the netloc of what follows the scheme
Netloc(url) ==
    IF Len(url) >= 2 /\ url[1] = "/" /\ url[2] = "/"
    THEN splitnetloc(url, Find(url, {"/", "?", "#"}, 3))
    ELSE <<>>

SplitResult(s) == [scheme |-> s.scheme, netloc |-> Netloc(s.url)]

\* urlsplit of a string already stripped
urlsplit(url) == SplitResult(SplitScheme(url, Find(url, {":"}, 1)))

\* urlparse(value): [scheme, netloc]
urlparse(value) == urlsplit(RemoveUnsafe(lstrip(value)))

StartsWith(s, p) == Len(s) >= Len(p) /\ SubSeq(s, 1, Len(p)) = p

HTTP == <<"h", "t", "t", "p">>

\* validate_http_url without the test that the scheme starts with "http"
validate_http_url_AnyScheme(value) ==
    LET parsed_url == urlparse(value)
    IN IF ~(parsed_url.scheme # <<>> /\ parsed_url.netloc # <<>>)
       THEN [raised |-> TRUE, value |-> NoValue]
       ELSE [raised |-> FALSE, value |-> PyStr(value)]

\* validate_http_url(value): [raised, value]
validate_http_url(value) ==
    LET parsed_url == urlparse(value)
    IN IF ~(parsed_url.scheme # <<>> /\ parsed_url.netloc # <<>>)
       THEN [raised |-> TRUE, value |-> NoValue]
       ELSE IF ~StartsWith(parsed_url.scheme, HTTP)
       THEN [raised |-> TRUE, value |-> NoValue]
       ELSE [raised |-> FALSE, value |-> PyStr(value)]

---------------------------------------------------------------------------
(* Rendering primitives *)

\* format_html(metatag, ns, key, content): one line of output.  Every
\* argument is converted with str() and escaped; ns and key are names of
\* the program and hold no character that escaping changes.
metatag(ns, key, content) ==
    [property |-> ns \o ":" \o key, content |-> escape(StrOf(content))]

FlatMap(seq, Op(_)) == Concat([i \in 1..Len(seq) |-> Op(seq[i])])

\* dataclasses.fields(self) of each class, in declaration order (ClassVars
\* such as _prefix and _label are not fields)
StructuredPropertyFields == <<"type", "url", "secure_url">>
VideoPropFields == StructuredPropertyFields \o <<"width", "height">>
ImagePropFields == VideoPropFields \o <<"alt">>
OpenGraphFields == <<"title", "url", "type", "image", "description",
                     "determiner", "locale", "site_name">>
OGArticleFields == OpenGraphFields \o <<"published_time", "modified_time",
                                        "expiration_time", "section", "author", "tag">>
OGBookFields == OpenGraphFields \o <<"isbn", "release_date", "author", "tag">>
OGProfileFields == OpenGraphFields \o <<"first_name", "last_name", "username", "gender">>

ThingSchemaFields == <<"name", "description", "url", "image">>
CreativeWorkSchemaFields ==
    ThingSchemaFields \o <<"abstract", "author", "copyrightHolder", "copyrightNotice",
                           "copyrightYear", "creativeWorkStatus", "dateCreated",
                           "datePublished", "dateModified", "expires", "headline",
                           "keywords">>
WebPageSchemaFields ==
    CreativeWorkSchemaFields \o <<"breadcrumb", "lastReviewed", "mainContentOfPage",
                                  "primaryImageOfPage", "relatedLink", "reviewedBy",
                                  "significantLink", "significantLinks">>
MediaObjectSchemaFields ==
    CreativeWorkSchemaFields \o <<"contentUrl", "embedUrl", "encodingFormat", "fileSize",
                                  "height", "playerType", "productionCompany",
                                  "regionsAllowed", "requiresSubscription", "uploadDate",
                                  "width">>
ArticleSchemaFields ==
    CreativeWorkSchemaFields \o <<"articleBody", "articleSection", "wordCount">>
PersonSchemaFields ==
    ThingSchemaFields \o <<"additionalName", "address", "birthDate", "birthPlace", "brand",
                           "contactPoint", "deathDate", "deathPlace", "email",
                           "familyName", "givenName", "nationality">>

fields(cls) ==
    CASE cls = "StructuredProperty" -> StructuredPropertyFields
      [] cls = "ThingSchema" -> ThingSchemaFields
      [] cls = "CreativeWorkSchema" -> CreativeWorkSchemaFields
      [] cls = "WebPageSchema" -> WebPageSchemaFields
      [] cls = "MediaObjectSchema" -> MediaObjectSchemaFields
      [] cls = "ArticleSchema" -> ArticleSchemaFields
      [] cls = "PersonSchema" -> PersonSchemaFields
      [] cls = "AudioProp" -> StructuredPropertyFields
      [] cls = "VideoProp" -> VideoPropFields
      [] cls = "ImageProp" -> ImagePropFields
      [] cls = "OpenGraph" -> OpenGraphFields
      [] cls = "OGArticle" -> OGArticleFields
      [] cls = "OGBook" -> OGBookFields
      [] cls = "OGProfile" -> OGProfileFields

\* the _prefix class constant
prefix(cls) ==
    CASE cls = "StructuredProperty" -> ""
      [] cls = "AudioProp" -> "audio"
      [] cls = "VideoProp" -> "video"
      [] cls = "ImageProp" -> "image"

StructuredPropertyClasses == {"StructuredProperty", "AudioProp", "VideoProp", "ImageProp"}
OpenGraphClasses == {"OpenGraph", "OGArticle", "OGBook", "OGProfile"}
\* the subclasses that inherit CreativeWorkSchema.__post_init__
CreativeWorkClasses ==
    {"CreativeWorkSchema", "WebPageSchema", "MediaObjectSchema", "ArticleSchema"}
ThingClasses == {"ThingSchema", "PersonSchema"} \cup CreativeWorkClasses

---------------------------------------------------------------------------
(* Structured properties *)

\* "if self.x: self.x = validate_http_url(self.x)"
ValidateIfSet(v) ==
    IF Truthy(v) THEN validate_http_url(v.chars) ELSE [raised |-> FALSE, value |-> v]

\* StructuredProperty.__post_init__, inherited by the three subclasses
StructuredProperty_post_init(f) ==
    LET r1 == ValidateIfSet(f.url)
        r2 == ValidateIfSet(f.secure_url)
    IN IF r1.raised \/ r2.raised
       THEN [raised |-> TRUE, fields |-> f]
       ELSE [raised |-> FALSE,
             fields |-> [f EXCEPT !.url = r1.value, !.secure_url = r2.value]]

\* StructuredProperty.__str__ without the test of the prefix
StructuredProperty_str_NoPrefixTest(o) ==
    <<metatag("og", prefix(o.cls), o.fields.url)>>
    \o FlatMap(fields(o.cls),
               LAMBDA attr :
                 IF attr = "url" THEN <<>>
                 ELSE IF Truthy(o.fields[attr])
                 THEN <<metatag("og:" \o prefix(o.cls), attr, o.fields[attr])>>
                 ELSE <<>>)

\* StructuredProperty.__str__ that does not skip the url field in its loop
StructuredProperty_str_UrlTwice(o) ==
    IF prefix(o.cls) = ""
    THEN <<>>
    ELSE <<metatag("og", prefix(o.cls), o.fields.url)>>
         \o FlatMap(fields(o.cls),
                    LAMBDA attr :
                      IF Truthy(o.fields[attr])
                      THEN <<metatag("og:" \o prefix(o.cls), attr, o.fields[attr])>>
                      ELSE <<>>)

\* StructuredProperty.__str__, inherited by the three subclasses
StructuredProperty_str(o) ==
    IF prefix(o.cls) = ""
    THEN <<>>
    ELSE <<metatag("og", prefix(o.cls), o.fields.url)>>
         \o FlatMap(fields(o.cls),
                    LAMBDA attr :
                      IF attr = "url" THEN <<>>
                      ELSE IF Truthy(o.fields[attr])
                      THEN <<metatag("og:" \o prefix(o.cls), attr, o.fields[attr])>>
                      ELSE <<>>)

\* cls(**kwargs): the __init__ that dataclasses generates takes the declared
\* fields as its keywords and answers any other keyword with a TypeError;
\* it stores the arguments and runs __post_init__, whose outcome is r.  An
\* exception leaves the caller without an object.
New(cls, kwargs, r) ==
    IF ~(DOMAIN kwargs \subseteq Range(fields(cls)))
    THEN [raised |-> TRUE, exc |-> "TypeError", obj |-> NoObject]
    ELSE IF r.raised
    THEN [raised |-> TRUE, exc |-> "ValueError", obj |-> NoObject]
    ELSE [raised |-> FALSE, exc |-> "none", obj |-> PyObject(cls, r.fields)]

NewStructuredProperty(cls, kwargs) ==
    New(cls, kwargs, StructuredProperty_post_init(kwargs))

---------------------------------------------------------------------------
(* Open Graph objects *)

\* a date field that is stored as it was given
IsoIfDate_KeepsValue(v) == v

IsoIfDate(v) == IF IsDate(v) THEN PyStr(isoformat(v)) ELSE v

\* OpenGraph.__post_init__ without the coercion of a bare ImageProp
OpenGraph_post_init_NoCoercion(f) ==
    LET r == ValidateIfSet(f.url)
    IN IF r.raised
       THEN [raised |-> TRUE, fields |-> f]
       ELSE [raised |-> FALSE, fields |-> [f EXCEPT !.url = r.value]]

\* OpenGraph.__post_init__
OpenGraph_post_init(f) ==
    LET r == ValidateIfSet(f.url)
        image == IF f.image.kind = "object" /\ f.image.cls = "ImageProp"
                 THEN PyList(<<f.image>>)
                 ELSE f.image
    IN IF r.raised
       THEN [raised |-> TRUE, fields |-> f]
       ELSE [raised |-> FALSE, fields |-> [f EXCEPT !.url = r.value, !.image = image]]

\* "super().__post_init__(...)" with outcome r, followed by the statements
\* Rest of the subclass: an exception of the base class ends the call
SuperThen(r, Rest(_)) ==
    IF r.raised THEN r ELSE [raised |-> FALSE, fields |-> Rest(r.fields)]

\* OGArticle.__post_init__ behind the call of super().__post_init__
OGArticle_own_post_init(f) ==
    [f EXCEPT !.type = PyStr(<<"a", "r", "t", "i", "c", "l", "e">>),
              !.section = IF @.kind = "Model" THEN PyStr(StrOf(@)) ELSE @,
              !.published_time = IsoIfDate(@),
              !.modified_time = IsoIfDate(@),
              !.expiration_time = IsoIfDate(@)]

\* OGArticle.__post_init__
OGArticle_post_init(f) == SuperThen(OpenGraph_post_init(f), OGArticle_own_post_init)

\* "[str(author) for author in self.author]"
StrEach(l) == PyList([i \in 1..Len(l.items) |-> PyStr(StrOf(l.items[i]))])

\* OGBook.__post_init__ without the assignment to type
OGBook_own_post_init_KeepsType(f) ==
    [f EXCEPT !.author = IF Truthy(@) /\ @.kind = "Model"
                         THEN PyList(<<PyStr(StrOf(@))>>)
                         ELSE IF Truthy(@) THEN StrEach(@) ELSE @,
              !.release_date = IF Truthy(@) THEN IsoIfDate(@) ELSE @]

\* OGBook.__post_init__ behind the call of super().__post_init__
OGBook_own_post_init(f) ==
    [f EXCEPT !.type = PyStr(<<"b", "o", "o", "k">>),
              !.author = IF Truthy(@) /\ @.kind = "Model"
                         THEN PyList(<<PyStr(StrOf(@))>>)
                         ELSE IF Truthy(@) THEN StrEach(@) ELSE @,
              !.release_date = IF Truthy(@) THEN IsoIfDate(@) ELSE @]

\* OGBook.__post_init__
OGBook_post_init(f) == SuperThen(OpenGraph_post_init(f), OGBook_own_post_init)

\* OGProfile.__post_init__ behind the call of super().__post_init__
OGProfile_own_post_init(f) ==
    [f EXCEPT !.type = PyStr(<<"p", "r", "o", "f", "i", "l", "e">>)]

\* OGProfile.__post_init__
OGProfile_post_init(f) == SuperThen(OpenGraph_post_init(f), OGProfile_own_post_init)

\* basic_attrs with "locale" left out
basic_attrs_NoLocale == {"description", "determiner", "site_name", "title", "type"}

basic_attrs == {"description", "determiner", "locale", "site_name", "title", "type"}

\* OpenGraph.__str__ that appends the og:url line instead of starting with it
OpenGraph_str_UrlLast(o) ==
    FlatMap(fields(o.cls),
            LAMBDA attr :
              LET content == o.fields[attr]
              IN IF attr = "url" \/ IsNone(content) THEN <<>>
                 ELSE IF attr \in {"audio", "image", "video"}
                 THEN FlatMap(content.items, StructuredProperty_str)
                 ELSE IF attr = "locale_alternate"
                 THEN FlatMap(content.items,
                              LAMBDA locale : <<metatag("og", attr, locale)>>)
                 ELSE IF Truthy(content) /\ attr \in basic_attrs
                 THEN <<metatag("og", attr, content)>>
                 ELSE <<>>)
    \o <<metatag("og", "url", o.fields.url)>>

\* OpenGraph.__str__ that renders the first item of a list of structured
\* properties and drops the others
OpenGraph_str_FirstItemOnly(o) ==
    <<metatag("og", "url", o.fields.url)>>
    \o FlatMap(fields(o.cls),
               LAMBDA attr :
                 LET content == o.fields[attr]
                 IN IF attr = "url" \/ IsNone(content) THEN <<>>
                    ELSE IF attr \in {"audio", "image", "video"}
                    THEN IF content.items = <<>> THEN <<>>
                         ELSE StructuredProperty_str(Head(content.items))
                    ELSE IF attr = "locale_alternate"
                    THEN FlatMap(content.items,
                                 LAMBDA locale : <<metatag("og", attr, locale)>>)
                    ELSE IF Truthy(content) /\ attr \in basic_attrs
                    THEN <<metatag("og", attr, content)>>
                    ELSE <<>>)

\* OpenGraph.__str__
OpenGraph_str(o) ==
    <<metatag("og", "url", o.fields.url)>>
    \o FlatMap(fields(o.cls),
               LAMBDA attr :
                 LET content == o.fields[attr]
                 IN IF attr = "url" \/ IsNone(content) THEN <<>>
                    ELSE IF attr \in {"audio", "image", "video"}
                    THEN FlatMap(content.items, StructuredProperty_str)
                    ELSE IF attr = "locale_alternate"
                    THEN FlatMap(content.items,
                                 LAMBDA locale : <<metatag("og", attr, locale)>>)
                    ELSE IF Truthy(content) /\ attr \in basic_attrs
                    THEN <<metatag("og", attr, content)>>
                    ELSE <<>>)

\* article_props with "section" left out
article_props_NoSection == {"published_time", "modified_time", "expiration_time"}

article_props == {"published_time", "modified_time", "expiration_time", "section"}

\* OGArticle.__str__ that appends the output of the base class to its own
\* lines instead of starting from it
OGArticle_str_ParentLast(o) ==
    FlatMap(fields(o.cls),
            LAMBDA attr :
              LET content == o.fields[attr]
              IN IF IsNone(content) THEN <<>>
                 ELSE IF attr \in article_props
                 THEN <<metatag("article", attr, content)>>
                 ELSE IF attr \in {"author", "tag"}
                 THEN FlatMap(content.items,
                              LAMBDA tag : <<metatag("article", attr, tag)>>)
                 ELSE <<>>)
    \o OpenGraph_str(o)

\* OGArticle.__str__
OGArticle_str(o) ==
    OpenGraph_str(o)
    \o FlatMap(fields(o.cls),
               LAMBDA attr :
                 LET content == o.fields[attr]
                 IN IF IsNone(content) THEN <<>>
                    ELSE IF attr \in article_props
                    THEN <<metatag("article", attr, content)>>
                    ELSE IF attr \in {"author", "tag"}
                    THEN FlatMap(content.items,
                                 LAMBDA tag : <<metatag("article", attr, tag)>>)
                    ELSE <<>>)

book_props == {"author", "isbn", "release_date"}

\* OGBook.__str__
OGBook_str(o) ==
    OpenGraph_str(o)
    \o FlatMap(fields(o.cls),
               LAMBDA attr :
                 LET content == o.fields[attr]
                 IN IF IsNone(content) THEN <<>>
                    ELSE IF attr \in book_props
                    THEN <<metatag("book", attr, content)>>
                    ELSE IF attr \in {"author", "tag"}
                    THEN FlatMap(content.items,
                                 LAMBDA tag : <<metatag("book", attr, tag)>>)
                    ELSE <<>>)

profile_props == {"first_name", "last_name", "username", "gender"}

\* OGProfile.__str__ that skips a field only when it is None
OGProfile_str_NonNull(o) ==
    OpenGraph_str(o)
    \o FlatMap(fields(o.cls),
               LAMBDA attr :
                 LET content == o.fields[attr]
                 IN IF ~IsNone(content) /\ attr \in profile_props
                    THEN <<metatag("profile", attr, content)>>
                    ELSE <<>>)

\* OGProfile.__str__
OGProfile_str(o) ==
    OpenGraph_str(o)
    \o FlatMap(fields(o.cls),
               LAMBDA attr :
                 LET content == o.fields[attr]
                 IN IF Truthy(content) /\ attr \in profile_props
                    THEN <<metatag("profile", attr, content)>>
                    ELSE <<>>)

\* cls(**kwargs) of an Open Graph class
NewOpenGraph(cls, kwargs) ==
    New(cls, kwargs,
        CASE cls = "OpenGraph" -> OpenGraph_post_init(kwargs)
          [] cls = "OGArticle" -> OGArticle_post_init(kwargs)
          [] cls = "OGBook" -> OGBook_post_init(kwargs)
          [] cls = "OGProfile" -> OGProfile_post_init(kwargs))

---------------------------------------------------------------------------
(* Schema.org objects *)

\* ThingSchema.__post_init__, inherited by PersonSchema
ThingSchema_post_init(f) ==
    LET r == ValidateIfSet(f.url)
    IN IF r.raised
       THEN [raised |-> TRUE, fields |-> f]
       ELSE [raised |-> FALSE, fields |-> [f EXCEPT !.url = r.value]]

\* "if self.x and isinstance(self.x, date): self.x = self.x.isoformat()"
IsoIfSetDate(v) == IF Truthy(v) /\ IsDate(v) THEN PyStr(isoformat(v)) ELSE v

\* CreativeWorkSchema.__post_init__, inherited by WebPageSchema,
\* MediaObjectSchema and ArticleSchema; it replaces ThingSchema.__post_init__
\* and does not call it
CreativeWorkSchema_post_init(f) ==
    [raised |-> FALSE,
     fields |-> [f EXCEPT !.datePublished = IsoIfSetDate(@),
                          !.dateModified = IsoIfSetDate(@),
                          !.expires = IsoIfSetDate(@),
                          !.author = IF @.kind = "Model" THEN PyStr(StrOf(@)) ELSE @]]

\* cls(**kwargs) of a Schema.org class
NewThing(cls, kwargs) ==
    New(cls, kwargs,
        IF cls \in CreativeWorkClasses
        THEN CreativeWorkSchema_post_init(kwargs)
        ELSE ThingSchema_post_init(kwargs))

---------------------------------------------------------------------------
(* Rendering of Schema.org objects: the JSON-LD script element.  The       *)
(* element is the record of its id, its type and its JSON object; a JSON   *)
(* object is the sequence of its members in order, and a JSON string is    *)
(* the text between its quotes, as it stands in the output.                *)

\* the _label class constant
class_label(cls) ==
    CASE cls = "ThingSchema" -> "Thing"
      [] cls = "CreativeWorkSchema" -> "CreativeWork"
      [] cls = "WebPageSchema" -> "WebPage"
      [] cls = "MediaObjectSchema" -> "MediaObject"
      [] cls = "ArticleSchema" -> "Article"
      [] cls = "PersonSchema" -> "Person"

\* the characters of the labels and of "https://schema.org"
LabelChars(l) ==
    CASE l = "Thing" -> <<"T", "h", "i", "n", "g">>
      [] l = "CreativeWork" -> <<"C", "r", "e", "a", "t", "i", "v", "e", "W", "o", "r", "k">>
      [] l = "WebPage" -> <<"W", "e", "b", "P", "a", "g", "e">>
      [] l = "MediaObject" -> <<"M", "e", "d", "i", "a", "O", "b", "j", "e", "c", "t">>
      [] l = "Article" -> <<"A", "r", "t", "i", "c", "l", "e">>
      [] l = "Person" -> <<"P", "e", "r", "s", "o", "n">>
SchemaOrg ==
    <<"h", "t", "t", "p", "s", ":", "/", "/", "s", "c", "h", "e", "m", "a", ".", "o", "r", "g">>

\* html.parser reads "<" as the start of a tag when a letter follows, or "/"
\* and a letter, and the tag ends at the next ">"
IsTagOpen(s) ==
    /\ Len(s) >= 2
    /\ s[1] = "<"
    /\ \/ IsAsciiAlpha(s[2])
       \/ Len(s) >= 3 /\ s[2] = "/" /\ IsAsciiAlpha(s[3])

\* django.utils.html._strip_once: the text without its tags
RECURSIVE strip_once(_)
strip_once(s) ==
    IF s = <<>> THEN <<>>
    ELSE IF IsTagOpen(s) /\ Find(s, {">"}, 2) # 0
    THEN strip_once(SubSeq(s, Find(s, {">"}, 2) + 1, Len(s)))
    ELSE <<Head(s)>> \o strip_once(Tail(s))

Count(s, c) == Cardinality({i \in 1..Len(s) : s[i] = c})

\* the loop of strip_tags on the text value and what one pass makes of it
RECURSIVE strip_loop(_, _)
strip_loop(value, new_value) ==
    IF Count(value, "<") = Count(new_value, "<") THEN value
    ELSE IF Count(new_value, "<") > 0 /\ Count(new_value, ">") > 0
    THEN strip_loop(new_value, strip_once(new_value))
    ELSE new_value

\* django.utils.html.strip_tags of the text str(value)
strip_tags(value) ==
    IF Count(value, "<") > 0 /\ Count(value, ">") > 0
    THEN strip_loop(value, strip_once(value))
    ELSE value

\* isinstance(v, SchemaBase), for the nested objects of a Schema.org object
IsSchema(v) == v.kind = "object"

\* SchemaBase.safe_dict: the members of the non-null fields in declaration
\* order, a nested schema object converted by its own safe_dict and any
\* other value stripped of tags and escaped, then @context and @type
RECURSIVE safe_dict(_)
safe_dict(o) ==
    FlatMap(fields(o.cls),
            LAMBDA k :
              IF IsNone(o.fields[k]) THEN <<>>
              ELSE IF IsSchema(o.fields[k])
              THEN <<[key |-> k, kind |-> "dict", members |-> safe_dict(o.fields[k])]>>
              ELSE <<[key |-> k, kind |-> "str",
                      chars |-> escape(strip_tags(StrOf(o.fields[k])))]>>)
    \o <<[key |-> "@context", kind |-> "str", chars |-> SchemaOrg],
         [key |-> "@type", kind |-> "str", chars |-> LabelChars(class_label(o.cls))]>>

\* json.dumps of a str, between the quotes (ensure_ascii, for ASCII text)
JsonChar(c) ==
    CASE c = "\"" -> <<"\\", "\"">>
      [] c = "\\" -> <<"\\", "\\">>
      [] c = "\n" -> <<"\\", "n">>
      [] c = "\t" -> <<"\\", "t">>
      [] c = "\r" -> <<"\\", "r">>
      [] OTHER -> <<c>>

\* the _json_script_escapes of django.utils.html
ScriptEscape(c) ==
    CASE c = ">" -> <<"\\", "u", "0", "0", "3", "E">>
      [] c = "<" -> <<"\\", "u", "0", "0", "3", "C">>
      [] c = "&" -> <<"\\", "u", "0", "0", "2", "6">>
      [] OTHER -> <<c>>

\* json.dumps(s).translate(_json_script_escapes), between the quotes
json_string(s) ==
    Concat([i \in 1..Len(s) |-> Concat([j \in 1..Len(JsonChar(s[i])) |->
                                           ScriptEscape(JsonChar(s[i])[j])])])

ApplicationJson ==
    <<"a", "p", "p", "l", "i", "c", "a", "t", "i", "o", "n", "/", "j", "s", "o", "n">>
ApplicationLdJson ==
    <<"a", "p", "p", "l", "i", "c", "a", "t", "i", "o", "n", "/", "l", "d", "+", "j", "s",
      "o", "n">>

\* text.replace("application/json", "application/ld+json")
RECURSIVE replace(_)
replace(text) ==
    IF Len(text) < Len(ApplicationJson) THEN text
    ELSE IF SubSeq(text, 1, Len(ApplicationJson)) = ApplicationJson
    THEN ApplicationLdJson \o replace(SubSeq(text, Len(ApplicationJson) + 1, Len(text)))
    ELSE <<Head(text)>> \o replace(Tail(text))

\* the JSON text of a dict as it stands in the output of ThingSchema.__str__:
\* serialized by json_script, then passed through replace with the rest of
\* the element.  A string value lies between quotes, which the text replaced
\* does not hold, so the replacement acts on each string by itself.
RECURSIVE script_json(_)
script_json(members) ==
    [i \in 1..Len(members) |->
       IF members[i].kind = "dict"
       THEN [key |-> members[i].key, kind |-> "dict",
             members |-> script_json(members[i].members)]
       ELSE [key |-> members[i].key, kind |-> "str",
             chars |-> replace(json_string(members[i].chars))]]

\* ThingSchema.__str__ that returns the output of json_script as it is
ThingSchema_str_JsonScript(o) ==
    [id |-> "schema-data",
     type |-> ApplicationJson,
     json |-> script_json(safe_dict(o))]

\* ThingSchema.__str__: json_script(schema, element_id="schema-data"), whose
\* template has type="application/json", then replace on the whole element
ThingSchema_str(o) ==
    [id |-> "schema-data",
     type |-> replace(ApplicationJson),
     json |-> script_json(safe_dict(o))]

\* str(o): the method the class of o resolves __str__ to
str(o) ==
    CASE o.cls \in StructuredPropertyClasses -> StructuredProperty_str(o)
      [] o.cls = "OpenGraph" -> OpenGraph_str(o)
      [] o.cls = "OGArticle" -> OGArticle_str(o)
      [] o.cls = "OGBook" -> OGBook_str(o)
      [] o.cls = "OGProfile" -> OGProfile_str(o)
      [] o.cls \in ThingClasses -> ThingSchema_str(o)

---------------------------------------------------------------------------
(* The registry of labels *)

\* the class statements of the Schema.org section in module order: the name
\* of the class, its base and the _label its body assigns
ClassStatements ==
    << [name |-> "ThingSchema", base |-> "SchemaBase", label |-> "Thing"],
       [name |-> "CreativeWorkSchema", base |-> "ThingSchema", label |-> "CreativeWork"],
       [name |-> "WebPageSchema", base |-> "CreativeWorkSchema", label |-> "WebPage"],
       [name |-> "MediaObjectSchema", base |-> "CreativeWorkSchema",
        label |-> "MediaObject"],
       [name |-> "ArticleSchema", base |-> "CreativeWorkSchema", label |-> "Article"],
       [name |-> "PersonSchema", base |-> "ThingSchema", label |-> "Person"] >>

\* an empty dict
EmptyDict == [l \in {} |-> ""]

\* issubclass(base, ThingSchema) among the classes defined so far: such a
\* base hands ThingSchema.__init_subclass__ down to the new class
RECURSIVE InheritsThing(_, _)
InheritsThing(classes, base) ==
    \/ base = "ThingSchema"
    \/ \E i \in 1..Len(classes) :
          classes[i].name = base /\ InheritsThing(classes, classes[i].base)

\* ThingSchema._register: "cls._registry[subclass._label] = subclass"
register(dict, subclass, label) ==
    [l \in DOMAIN dict \cup {label} |-> IF l = label THEN subclass ELSE dict[l]]

\* ThingSchema.get_class_for_label that answers with the class it is called on
get_class_for_label_IgnoresRegistry(dict, cls, label) == Type(cls)

\* ThingSchema.get_class_for_label: "cls._registry.get(label, cls)"
get_class_for_label(dict, cls, label) ==
    IF label \in DOMAIN dict THEN Type(dict[label]) ELSE Type(cls)

---------------------------------------------------------------------------
(* Inputs *)

SchemePrefixes ==
    { <<>>,
      HTTP,
      <<"h", "t", "t", "p", "s">>,
      <<"H", "t", "t", "P">>,
      <<"f", "t", "p">>,
      <<"h", "t", "t">>,
      <<" ", "h", "t", "t", "p">>,
      <<"1", "h", "t", "t", "p">> }

BodyAlphabet == {":", "/", "a"}

\* the strings handed to validate_http_url directly
UrlStrings == {p \o b : p \in SchemePrefixes, b \in SeqsUpTo(BodyAlphabet, MaxBodyLen)}

ValidateCalls == {[fn |-> "validate_http_url", value |-> v] : v \in UrlStrings}

\* "https://a/?b&c", "https://a", "http://a", "ftp://a"
HttpsQuery == <<"h", "t", "t", "p", "s", ":", "/", "/", "a", "/", "?", "b", "&", "c">>
HttpsA == <<"h", "t", "t", "p", "s", ":", "/", "/", "a">>
HttpA == <<"h", "t", "t", "p", ":", "/", "/", "a">>
FtpA == <<"f", "t", "p", ":", "/", "/", "a">>

\* values passed as url
UrlArgs == {None, PyStr(<<>>), PyStr(HttpsQuery), PyStr(<<"a">>), PyStr(FtpA)}
\* values passed as secure_url
SecureUrlArgs == {None, PyStr(HttpsA), PyStr(HttpA), PyStr(<<"a">>)}

\* r extended with the fields of s: the keyword arguments of both
Merge(r, s) ==
    [k \in DOMAIN r \cup DOMAIN s |-> IF k \in DOMAIN s THEN s[k] ELSE r[k]]

\* every field at its default, None
Defaults(cls) == [k \in Range(fields(cls)) |-> None]

StructuredPropertyKwargs ==
    [type : {None, PyStr(<<>>), PyStr(<<"t", "/", "x">>)},
     url : UrlArgs,
     secure_url : SecureUrlArgs]
VideoPropKwargs ==
    [type : {None, PyStr(<<"t", "/", "x">>)},
     url : {None, PyStr(HttpsA), PyStr(<<"a">>)},
     secure_url : {None, PyStr(HttpsA), PyStr(HttpA)},
     width : {None, PyInt(0), PyInt(1280)},
     height : {None, PyInt(720)}]
ImagePropKwargs ==
    [type : {None, PyStr(<<"t", "/", "x">>)},
     url : {None, PyStr(HttpsA)},
     secure_url : {None, PyStr(HttpsA), PyStr(<<"a">>)},
     width : {None, PyInt(0), PyInt(1280)},
     height : {None, PyInt(720)},
     alt : {None, PyStr(<<>>), PyStr(<<"a", "\"", "<">>)}]

StructuredPropertyCalls ==
    {[fn |-> c, kwargs |-> k] : c \in {"StructuredProperty", "AudioProp"},
                                k \in StructuredPropertyKwargs}
    \cup {[fn |-> "VideoProp", kwargs |-> k] : k \in VideoPropKwargs}
    \cup {[fn |-> "ImageProp", kwargs |-> k] : k \in ImagePropKwargs}

\* two ImageProp objects, as their constructor yields them
Image1 ==
    NewStructuredProperty("ImageProp",
        [type |-> PyStr(<<"t", "/", "x">>), url |-> PyStr(HttpsA), secure_url |-> None,
         width |-> PyInt(1280), height |-> PyInt(720), alt |-> PyStr(<<"a", "\"", "<">>)]).obj
Image2 ==
    NewStructuredProperty("ImageProp",
        [type |-> None, url |-> PyStr(HttpA), secure_url |-> None,
         width |-> None, height |-> None, alt |-> None]).obj

\* values passed as image: nothing, a bare ImageProp, a list of ImageProps
ImageArgs == {None, Image1} \cup {PyList(l) : l \in SeqsUpTo({Image1, Image2}, MaxImages)}

Website == <<"w", "e", "b", "s", "i", "t", "e">>

\* OpenGraph(title="T"): every other field at its default
OpenGraphDefaults ==
    [Defaults("OpenGraph") EXCEPT !.title = PyStr(<<"T">>), !.type = PyStr(Website)]

\* keyword arguments of OpenGraph: the text fields vary without an image, the
\* image varies with two of the text fields
OpenGraphKwargs ==
    {Merge(OpenGraphDefaults, k) :
        k \in [title : {PyStr(<<"T">>), PyStr(<<>>)},
               url : UrlArgs,
               type : {PyStr(Website), PyStr(<<>>), PyStr(<<"x">>)},
               description : {None, PyStr(<<>>), PyStr(<<"d", "&">>)},
               determiner : {None, PyStr(<<"t", "h", "e">>)},
               locale : {None, PyStr(<<"e", "n">>)},
               site_name : {None, PyStr(<<"s">>)}]}
    \cup {Merge(OpenGraphDefaults, k) :
        k \in [url : {None, PyStr(HttpsQuery)},
               image : ImageArgs,
               description : {None, PyStr(<<"d", "&">>)}]}

\* OpenGraph(title="T", locale_alternate=[...]): the list of alternate
\* locales passed by keyword
LocaleAlternateArgs ==
    {PyList(l) : l \in SeqsUpTo({PyStr(<<"f", "r">>), PyStr(<<"e", "s">>)}, MaxLocales)}
OpenGraphKwargsWithLocaleAlternate ==
    {Merge(OpenGraphDefaults, k) :
        k \in [url : {None, PyStr(HttpsQuery)},
               locale : {None, PyStr(<<"e", "n">>)},
               locale_alternate : LocaleAlternateArgs]}

\* arguments of the base class passed to the constructors of the subclasses
OpenGraphKwargsForSubclass ==
    {Merge(OpenGraphDefaults, k) :
        k \in [url : {None, PyStr(HttpsQuery), PyStr(<<"a">>)},
               type : {PyStr(Website), PyStr(<<"x">>)},
               image : {None, Image2}]}

June30 == PyDate(2022, 6, 30)
June30Noon == PyDateTime(2022, 6, 30, 12, 0, 0)
Jan5Morning == PyDateTime(2023, 1, 5, 9, 7, 3)
Jane == Model(<<"J", "<">>)

\* keyword arguments of OGArticle: the dates vary, or the section and the lists
OGArticleKwargs ==
    {Merge([a \in Range(OGArticleFields) \ Range(OpenGraphFields) |-> None], k) :
        k \in [published_time : {None, PyStr(<<"2", "0", "2", "2">>), June30, June30Noon},
               modified_time : {None, June30},
               expiration_time : {None, PyStr(<<>>)}]
          \cup [section : {None, PyStr(<<"s">>), Model(<<"N", "e", "w", "s">>)},
                author : {None, PyList(<<>>), PyList(<<PyStr(HttpsA)>>),
                          PyList(<<Jane, PyStr(HttpsA)>>)},
                tag : {None, PyList(<<PyStr(<<"t">>)>>),
                       PyList(<<PyStr(<<"t">>), PyStr(<<"u">>)>>)}]}

OGBookKwargs ==
    [isbn : {None, PyStr(<<"9">>)},
     release_date : {None, PyStr(<<"2", "0", "2", "2">>), June30, Jan5Morning},
     author : {None, Jane, PyList(<<>>), PyList(<<PyStr(HttpsA)>>),
               PyList(<<Jane, PyStr(<<"b">>)>>)},
     tag : {None, PyList(<<PyStr(<<"t">>), PyStr(<<"u">>)>>)}]

OGGender_male == EnumMember(<<"O", "G", "G", "e", "n", "d", "e", "r">>, <<"m", "a", "l", "e">>)

OGProfileKwargs ==
    [first_name : {None, PyStr(<<>>), PyStr(<<"F">>)},
     last_name : {None, PyStr(<<"L">>)},
     username : {None, PyStr(<<"u">>)},
     gender : {None, OGGender_male, PyInt(0)}]

OpenGraphCalls ==
    {[fn |-> "OpenGraph", kwargs |-> k] :
        k \in OpenGraphKwargs \cup OpenGraphKwargsWithLocaleAlternate}
    \cup {[fn |-> "OGArticle", kwargs |-> Merge(b, k)] :
            b \in OpenGraphKwargsForSubclass, k \in OGArticleKwargs}
    \cup {[fn |-> "OGBook", kwargs |-> Merge(b, k)] :
            b \in OpenGraphKwargsForSubclass, k \in OGBookKwargs}
    \cup {[fn |-> "OGProfile", kwargs |-> Merge(b, k)] :
            b \in OpenGraphKwargsForSubclass, k \in OGProfileKwargs}

\* PersonSchema(name="J<", email="e@a")
Author1 ==
    NewThing("PersonSchema",
             Merge(Defaults("PersonSchema"),
                   [name |-> PyStr(<<"J", "<">>), email |-> PyStr(<<"e", "@", "a">>)])).obj

\* MediaObjectSchema(name="p", contentUrl="https://a", author=Author1)
Picture ==
    NewThing("MediaObjectSchema",
             Merge(Defaults("MediaObjectSchema"),
                   [name |-> PyStr(<<"p">>), contentUrl |-> PyStr(HttpsA),
                    author |-> Author1])).obj

\* values passed as description: "<b>d", "\<i>&", "a<b"
DescriptionArgs ==
    {None, PyStr(<<"<", "b", ">", "d">>), PyStr(<<"\\", "<", "i", ">", "&">>),
     PyStr(<<"a", "<", "b">>)}

ThingSchemaKwargs ==
    [name : {None, PyStr(<<"n">>)},
     description : DescriptionArgs,
     url : UrlArgs,
     image : {None, PyStr(HttpsA), Picture}]

\* arguments of the base class passed to the constructors of the subclasses
ThingSchemaKwargsForSubclass ==
    [name : {PyStr(<<"n">>)},
     description : {None},
     url : {None, PyStr(<<>>), PyStr(HttpsA), PyStr(<<"a">>)},
     image : {None}]

Status_USABLE == TextChoice(<<"u", "s", "a", "b", "l", "e">>)

\* keyword arguments of CreativeWorkSchema: the author and status vary, or
\* the dates
CreativeWorkSchemaKwargs ==
    [author : {None, PyStr(<<"A">>), Jane},
     creativeWorkStatus : {None, Status_USABLE}]
    \cup [dateCreated : {None, June30},
          datePublished : {None, PyStr(<<"2", "0", "2", "2">>), June30},
          dateModified : {None, June30Noon},
          expires : {None, June30}]

\* the labels looked up: the six of the module and one that no class carries
Labels == {"Thing", "CreativeWork", "WebPage", "MediaObject", "Article", "Person",
           "Event"}

\* cls.get_class_for_label(label), on ThingSchema and on its subclasses
LookupCalls ==
    {[fn |-> "get_class_for_label", cls |-> c, label |-> l] :
        c \in ThingClasses, l \in Labels}

\* keyword arguments of MediaObjectSchema: the MIME type, a nested author,
\* the list of keywords and a size
MediaObjectSchemaKwargs ==
    [encodingFormat : {None, PyStr(ApplicationJson), PyStr(<<"a", "/", "b">>)},
     author : {None, Author1},
     keywords : {None, PyList(<<PyStr(<<"k">>), PyStr(<<"l">>)>>)},
     width : {None, PyInt(0)},
     description : {None, PyStr(<<"<", "b", ">", "d">>)}]

ThingCalls ==
    {[fn |-> "ThingSchema", kwargs |-> k] : k \in ThingSchemaKwargs}
    \cup {[fn |-> "PersonSchema",
           kwargs |-> Merge(Merge(Defaults("PersonSchema"), b), [email |-> e])] :
            b \in ThingSchemaKwargs, e \in {None, PyStr(<<"e", "@", "a">>)}}
    \cup {[fn |-> c, kwargs |-> Merge(Merge(Defaults(c), b), k)] :
            c \in CreativeWorkClasses,
            b \in ThingSchemaKwargsForSubclass,
            k \in CreativeWorkSchemaKwargs}
    \cup {[fn |-> "MediaObjectSchema",
           kwargs |-> Merge(Defaults("MediaObjectSchema"), k)] :
            k \in MediaObjectSchemaKwargs}

\* the threads of the process
Threads == 1..MaxThreads

\* before the first request of a client, and before the first response
NoRequest == [n |-> 0, site |-> 0, path |-> <<>>, hops |-> 0]
NoResponse == [status |-> 0]

\* a thread that has made no call yet
IdleThread == [pc |-> "idle", call |-> NoCall, obj |-> NoObject, ret |-> NoValue]

\* the lookups the threads make: a label registered, the label of the base
\* class, which is not registered, and a label no class carries
ThreadLookupCalls ==
    {[fn |-> "get_class_for_label", cls |-> c, label |-> l] :
        c \in {"ThingSchema", "ArticleSchema"}, l \in {"Article", "Thing", "Event"}}

\* the constructor calls the threads make
ThreadThingCalls ==
    {[fn |-> "ArticleSchema",
      kwargs |-> Merge(Defaults("ArticleSchema"), [name |-> PyStr(<<"n">>)])],
     [fn |-> "PersonSchema",
      kwargs |-> Merge(Defaults("PersonSchema"), [url |-> PyStr(FtpA)])]}

\* the names of the classes the application defines after the module is loaded
SubclassNames == <<"Sub1", "Sub2", "Sub3", "Sub4">>

\* the assignments of _label in a class body of the application: none, or
\* one of a new label
SubclassLabels == {<<>>, <<"Event">>}

---------------------------------------------------------------------------
(* The program: the module is loaded, one class statement after the other; *)
(* then the caller makes one call, of the validator, of a constructor, of  *)
(* which it renders the object with str(), or of get_class_for_label.      *)

Init ==
    /\ pc = "import"
    /\ call = NoCall
    /\ obj = NoObject
    /\ ret = NoValue
    /\ exc = "none"
    /\ defined = <<>>
    /\ registry = EmptyDict
    /\ renders = 0
    /\ threads = [t \in Threads |-> IdleThread]
    /\ now = 0
    /\ records = <<>>
    /\ request = NoRequest
    /\ response = NoResponse

\* the next class statement of the module: the class is created and, when it
\* inherits from ThingSchema, __init_subclass__ registers it under its _label
ClassStatement ==
    /\ pc = "import"
    /\ LET c == ClassStatements[Len(defined) + 1]
       IN /\ defined' = Append(defined, c)
          /\ registry' = IF InheritsThing(defined, c.base)
                          THEN register(registry, c.name, c.label)
                          ELSE registry
    /\ pc' = IF Len(defined) + 1 = Len(ClassStatements) THEN "call" ELSE "import"
    /\ UNCHANGED <<call, obj, ret, exc, renders>>
    /\ UNCHANGED background

\* a direct call of validate_http_url
ValidateHttpUrl ==
    /\ pc = "call"
    /\ \E c \in ValidateCalls :
          LET r == validate_http_url(c.value)
          IN /\ call' = c
             /\ pc' = IF r.raised THEN "raised" ELSE "returned"
             /\ exc' = IF r.raised THEN "ValueError" ELSE "none"
             /\ ret' = r.value
    /\ UNCHANGED <<obj, defined, registry, renders>>
    /\ UNCHANGED background

\* the outcome r of the constructor call c
Constructed(c, r) ==
    /\ call' = c
    /\ pc' = IF r.raised THEN "raised" ELSE "constructed"
    /\ exc' = r.exc
    /\ obj' = r.obj
    /\ UNCHANGED <<ret, defined, registry, renders>>
    /\ UNCHANGED background

\* StructuredProperty(...), AudioProp(...), VideoProp(...), ImageProp(...)
ConstructStructuredProperty ==
    /\ pc = "call"
    /\ \E c \in StructuredPropertyCalls :
          Constructed(c, NewStructuredProperty(c.fn, c.kwargs))

\* OpenGraph(...), OGArticle(...), OGBook(...), OGProfile(...)
ConstructOpenGraph ==
    /\ pc = "call"
    /\ \E c \in OpenGraphCalls : Constructed(c, NewOpenGraph(c.fn, c.kwargs))

\* ThingSchema(...), PersonSchema(...), CreativeWorkSchema(...),
\* WebPageSchema(...), MediaObjectSchema(...), ArticleSchema(...)
ConstructThing ==
    /\ pc = "call"
    /\ \E c \in ThingCalls : Constructed(c, NewThing(c.fn, c.kwargs))

\* str(obj) that yields its output the first time only
Render_OnlyOnce ==
    /\ pc \in {"constructed", "rendered"}
    /\ renders < MaxRenders
    /\ ret' = IF renders = 0 THEN str(obj) ELSE NoValue
    /\ renders' = renders + 1
    /\ pc' = "rendered"
    /\ UNCHANGED <<call, obj, exc, defined, registry>>
    /\ UNCHANGED background

\* str(obj) of the object constructed, for the first time or again: __str__
\* assigns to no field of the object and to no class attribute
Render ==
    /\ pc \in {"constructed", "rendered"}
    /\ renders < MaxRenders
    /\ ret' = str(obj)
    /\ renders' = renders + 1
    /\ pc' = "rendered"
    /\ UNCHANGED <<call, obj, exc, defined, registry>>
    /\ UNCHANGED background

\* cls.get_class_for_label(label)
GetClassForLabel ==
    /\ pc = "call"
    /\ \E c \in LookupCalls :
          /\ call' = c
          /\ ret' = get_class_for_label(registry, c.cls, c.label)
    /\ pc' = "returned"
    /\ UNCHANGED <<obj, exc, defined, registry, renders>>
    /\ UNCHANGED background

Next ==
    \/ ClassStatement
    \/ ValidateHttpUrl
    \/ ConstructStructuredProperty
    \/ ConstructOpenGraph
    \/ ConstructThing
    \/ Render
    \/ GetClassForLabel

Spec == Init /\ [][Next]_vars

---------------------------------------------------------------------------
(* The threads of a process: once the module is loaded, each thread makes   *)
(* one call of get_class_for_label, in two steps, or constructs a           *)
(* Schema.org object and renders it.                                        *)

\* the caller and its object stay where the loaded module left them
caller == <<pc, call, obj, ret, exc, renders>>

\* thread t enters cls.get_class_for_label(label)
ThreadCall(t) ==
    /\ pc = "call"
    /\ threads[t].pc = "idle"
    /\ \E c \in ThreadLookupCalls :
          threads' = [threads EXCEPT ![t] = [@ EXCEPT !.pc = "called", !.call = c]]
    /\ UNCHANGED <<caller, defined, registry>>
    /\ UNCHANGED <<now, records, request, response>>

\* a lookup that stores the class it answers with: "setdefault(label, cls)"
ThreadLookup_SetDefault(t) ==
    /\ threads[t].pc = "called"
    /\ LET c == threads[t].call
       IN /\ threads' = [threads EXCEPT ![t] =
                 [@ EXCEPT !.pc = "returned",
                           !.ret = get_class_for_label(registry, c.cls, c.label)]]
          /\ registry' = IF c.label \in DOMAIN registry
                          THEN registry
                          ELSE register(registry, c.cls, c.label)
    /\ UNCHANGED <<caller, defined>>
    /\ UNCHANGED <<now, records, request, response>>

\* thread t evaluates "cls._registry.get(label, cls)" and returns
ThreadLookup(t) ==
    /\ threads[t].pc = "called"
    /\ LET c == threads[t].call
       IN threads' = [threads EXCEPT ![t] =
              [@ EXCEPT !.pc = "returned",
                        !.ret = get_class_for_label(registry, c.cls, c.label)]]
    /\ UNCHANGED <<caller, defined, registry>>
    /\ UNCHANGED <<now, records, request, response>>

\* thread t constructs a Schema.org object
ThreadConstruct(t) ==
    /\ pc = "call"
    /\ threads[t].pc = "idle"
    /\ \E c \in ThreadThingCalls :
          LET r == NewThing(c.fn, c.kwargs)
          IN threads' = [threads EXCEPT ![t] =
                 [@ EXCEPT !.pc = IF r.raised THEN "raised" ELSE "constructed",
                           !.call = c,
                           !.obj = r.obj]]
    /\ UNCHANGED <<caller, defined, registry>>
    /\ UNCHANGED <<now, records, request, response>>

\* thread t renders its object with str()
ThreadRender(t) ==
    /\ threads[t].pc = "constructed"
    /\ threads' = [threads EXCEPT ![t] =
           [@ EXCEPT !.pc = "rendered", !.ret = str(threads[t].obj)]]
    /\ UNCHANGED <<caller, defined, registry>>
    /\ UNCHANGED <<now, records, request, response>>

NextThreads ==
    \/ ClassStatement
    \/ \E t \in Threads : ThreadCall(t)
    \/ \E t \in Threads : ThreadLookup(t)
    \/ \E t \in Threads : ThreadConstruct(t)
    \/ \E t \in Threads : ThreadRender(t)

SpecThreads == Init /\ [][NextThreads]_vars

---------------------------------------------------------------------------
(* The application defines further subclasses of the Schema.org classes     *)
(* after the module is loaded, and looks labels up.                         *)

\* the class attribute _label of the class of this name among the classes
\* defined: the class statements record the label resolved for each class
LabelOf(classes, name) ==
    LET i == CHOOSE i \in 1..Len(classes) : classes[i].name = name
    IN classes[i].label

\* "class SubN(base): ..." in application code: the class has the _label its
\* body assigns, else the one it inherits, and __init_subclass__ registers it
DefineSubclass ==
    /\ pc = "call"
    /\ Len(defined) < Len(ClassStatements) + MaxSubclasses
    /\ Len(defined) < Len(ClassStatements) + Len(SubclassNames)
    /\ \E i \in 1..Len(defined), body \in SubclassLabels :
          LET base == defined[i].name
              c == [name |-> SubclassNames[Len(defined) - Len(ClassStatements) + 1],
                    base |-> base,
                    label |-> IF body = <<>> THEN LabelOf(defined, base)
                              ELSE body[1]]
          IN /\ defined' = Append(defined, c)
             /\ registry' = IF InheritsThing(defined, c.base)
                             THEN register(registry, c.name, c.label)
                             ELSE registry
    /\ UNCHANGED <<pc, call, obj, ret, exc, renders>>
    /\ UNCHANGED background

NextSubclass ==
    \/ ClassStatement
    \/ DefineSubclass
    \/ GetClassForLabel

SpecSubclass == Init /\ [][NextSubclass]_vars

---------------------------------------------------------------------------
(* The content models (src/src/commoncontent/models.py).  A datetime is     *)
(* the number of its tick, counted from the start of EpochYear; the code    *)
(* modelled compares datetimes and reads their year.  The text of a model   *)
(* field is the sequence of its characters; the copyright sign U+00A9 is    *)
(* the element "(c)".                                                       *)

EpochYear == 2021
TicksPerYear == 2

\* a datetime value
DateTimeAt(t) == [kind |-> "datetime", tick |-> t]

\* datetime.year
year(d) == EpochYear + (d.tick \div TicksPerYear)

\* timezone.now()
timezone_now(t) == DateTimeAt(t)

\* str.format with automatic field numbering, for format strings whose
\* braces are all replacement fields "{}": IndexError when the arguments
\* run out
RECURSIVE str_format(_, _)
str_format(s, args) ==
    IF s = <<>> THEN [raised |-> FALSE, chars |-> <<>>]
    ELSE IF Len(s) >= 2 /\ s[1] = "{" /\ s[2] = "}"
    THEN IF args = <<>> THEN [raised |-> TRUE, chars |-> <<>>]
         ELSE LET r == str_format(SubSeq(s, 3, Len(s)), Tail(args))
              IN [raised |-> r.raised,
                  chars |-> IF r.raised THEN <<>> ELSE Head(args) \o r.chars]
    ELSE LET r == str_format(Tail(s), args)
         IN [raised |-> r.raised,
             chars |-> IF r.raised THEN <<>> ELSE <<Head(s)>> \o r.chars]

\* django.utils.html.format_html: the arguments, as text, are escaped and
\* the format string is filled with them
format_html(format_string, args) ==
    str_format(format_string, [i \in 1..Len(args) |-> escape(args[i])])

\* site.vars.get_value(name, default): the value of the variable of this
\* site, the default when the site has no variable of this name
get_value(siteVars, name, default) ==
    IF name \in DOMAIN siteVars THEN siteVars[name] ELSE default

\* CommonContentConfig.fallback_copyright
fallback_copyright ==
    <<"(c)", " ", "C", "o", "p", "y", "r", "i", "g", "h", "t", " ", "{", "}", " ",
      "{", "}", ".", " ", "A", "l", "l", " ", "r", "i", "g", "h", "t", "s", " ",
      "r", "e", "s", "e", "r", "v", "e", "d", ".">>

\* AbstractCreativeWork.copyright_holder
copyright_holder(self) ==
    IF self.custom_copyright_holder # <<>>
    THEN self.custom_copyright_holder
    ELSE IF ~IsNone(self.author)
    THEN IF self.author.copyright_holder # <<>>
         THEN self.author.copyright_holder
         ELSE self.author.name
    ELSE get_value(self.site.vars, "copyright_holder", self.site.name)

\* copyright_year that prefers the creation date
copyright_year_CreatedFirst(self, t) ==
    IF ~IsNone(self.date_created) THEN year(self.date_created)
    ELSE IF ~IsNone(self.date_published) THEN year(self.date_published)
    ELSE year(timezone_now(t))

\* AbstractCreativeWork.copyright_year, read when the clock shows t
copyright_year(self, t) ==
    IF ~IsNone(self.date_published) THEN year(self.date_published)
    ELSE IF ~IsNone(self.date_created) THEN year(self.date_created)
    ELSE year(timezone_now(t))

\* AbstractCreativeWork.copyright_notice, read when the clock shows t
copyright_notice(self, t) ==
    LET notice == get_value(self.site.vars, "copyright_notice", <<>>)
    IN IF self.custom_copyright_notice # <<>>
       THEN format_html(self.custom_copyright_notice,
                        <<IntStr(copyright_year(self, t))>>)
       ELSE IF ~IsNone(self.author) /\ self.author.copyright_notice # <<>>
       THEN format_html(self.author.copyright_notice,
                        <<IntStr(copyright_year(self, t))>>)
       ELSE IF notice # <<>>
       THEN format_html(notice, <<IntStr(copyright_year(self, t))>>)
       ELSE format_html(fallback_copyright,
                        <<IntStr(copyright_year(self, t)), copyright_holder(self)>>)

\* authors: one who sets neither holder nor notice, one who sets both
AuthorRows ==
    {[kind |-> "Author", name |-> <<"a", "<">>, copyright_holder |-> <<>>,
      copyright_notice |-> <<>>],
     [kind |-> "Author", name |-> <<"a", "<">>, copyright_holder |-> <<"h">>,
      copyright_notice |-> <<"{", "}", " ", "a">>]}

\* sites: with or without the variables copyright_notice and copyright_holder
SiteRows ==
    {[name |-> <<"e", ".", "c">>, vars |-> v] :
        v \in {EmptyDict,
               [n \in {"copyright_notice"} |-> <<"{", "}", " ", "s">>],
               [n \in {"copyright_holder"} |-> <<"v", "&">>],
               [n \in {"copyright_notice", "copyright_holder"} |->
                   IF n = "copyright_notice" THEN <<"s">> ELSE <<"v", "&">>]}}

\* content records whose copyright notice is read
Works ==
    [custom_copyright_notice : {<<>>, <<"c", " ", "{", "}">>},
     custom_copyright_holder : {<<>>, <<"k">>},
     author : {None} \cup AuthorRows,
     site : SiteRows,
     date_created : {None, DateTimeAt(0)},
     date_published : {None, DateTimeAt(2)}]

\* the clock when the notice is read
NoticeTimes == {4, 5, 6}

InitCopyright ==
    /\ pc = "call"
    /\ call = NoCall
    /\ obj = NoObject
    /\ ret = NoValue
    /\ exc = "none"
    /\ defined = <<>>
    /\ registry = EmptyDict
    /\ renders = 0
    /\ threads = [t \in Threads |-> IdleThread]
    /\ now \in NoticeTimes
    /\ records \in Works
    /\ request = NoRequest
    /\ response = NoResponse

\* the property copyright_notice of the content record is read
CopyrightNotice ==
    /\ pc = "call"
    /\ LET r == copyright_notice(records, now)
       IN /\ call' = [fn |-> "copyright_notice"]
          /\ pc' = IF r.raised THEN "raised" ELSE "returned"
          /\ exc' = IF r.raised THEN "IndexError" ELSE "none"
          /\ ret' = IF r.raised THEN NoValue ELSE PyStr(r.chars)
    /\ UNCHANGED <<obj, defined, registry, renders, threads>>
    /\ UNCHANGED <<now, records, request, response>>

NextCopyright == CopyrightNotice

SpecCopyright == InitCopyright /\ [][NextCopyright]_vars

---------------------------------------------------------------------------
(* The public views of pages and articles (views.py, urls.py).  A URL path  *)
(* is the sequence of its slugs and of the literal parts between them.      *)

Status_WITHHELD == TextChoice(<<"w", "i", "t", "h", "h", "e", "l", "d">>)
Status_CANCELLED == TextChoice(<<"c", "a", "n", "c", "e", "l", "l", "e", "d">>)

\* live() that takes a record published at this very moment as not yet live
live_PublishedBeforeNow(rows, t1, t2) ==
    {r \in rows :
        /\ (IsNone(r.expires) \/ r.expires.tick > t1)
        /\ r.status = Status_USABLE
        /\ ~IsNone(r.date_published)
        /\ r.date_published.tick < t2}

\* CreativeWorkQuerySet.live: the filter reads the clock twice, at t1 for
\* the condition on expires and then at t2 for that on date_published; a
\* comparison with NULL selects no row
live(rows, t1, t2) ==
    {r \in rows :
        /\ (IsNone(r.expires) \/ r.expires.tick > t1)
        /\ r.status = Status_USABLE
        /\ ~IsNone(r.date_published)
        /\ r.date_published.tick <= t2}

\* django.shortcuts.get_object_or_404 on a queryset of at most one row
get_object_or_404(queryset) ==
    IF queryset = {}
    THEN [raised |-> TRUE, object |-> NoObject]
    ELSE [raised |-> FALSE, object |-> CHOOSE r \in queryset : TRUE]

\* django.urls.reverse for the three URL patterns of pages and articles
reverse(viewname, kwargs) ==
    CASE viewname = "article_series_page" ->
             <<kwargs.section_slug, "/", kwargs.series_slug, "/",
               kwargs.article_slug, ".html">>
      [] viewname = "article_page" ->
             <<kwargs.section_slug, "/", kwargs.article_slug, ".html">>
      [] viewname = "landing_page" -> <<kwargs.page_slug, ".html">>

\* the URL resolver on these patterns, for slugs that no earlier pattern of
\* urls.py matches ("author", "feed", "page_<int>")
resolve(path) ==
    IF Len(path) = 6 /\ path[2] = "/" /\ path[4] = "/" /\ path[6] = ".html"
    THEN [view |-> "article_series_page",
          kwargs |-> [section_slug |-> path[1], series_slug |-> path[3],
                      article_slug |-> path[5]]]
    ELSE IF Len(path) = 4 /\ path[2] = "/" /\ path[4] = ".html"
    THEN [view |-> "article_page",
          kwargs |-> [section_slug |-> path[1], article_slug |-> path[3]]]
    ELSE IF Len(path) = 2 /\ path[2] = ".html"
    THEN [view |-> "landing_page", kwargs |-> [page_slug |-> path[1]]]
    ELSE [view |-> "none", kwargs |-> <<>>]

\* the responses
HttpResponseNotFound == [status |-> 404]
HttpResponse(object) == [status |-> 200, object |-> object]
HttpResponsePermanentRedirect(location) == [status |-> 301, location |-> location]

\* Article.get_absolute_url that leaves the series out
get_absolute_url_NoSeries(self) ==
    reverse("article_page",
            [article_slug |-> self.slug, section_slug |-> self.section.slug])

\* Article.get_absolute_url
get_absolute_url(self) ==
    IF ~IsNone(self.series)
    THEN reverse("article_series_page",
                 [section_slug |-> self.section.slug,
                  series_slug |-> self.series.slug,
                  article_slug |-> self.slug])
    ELSE reverse("article_page",
                 [article_slug |-> self.slug, section_slug |-> self.section.slug])

\* PageDetailView.get_object, its live() reading the clock at t1 and t2
PageDetailView_get_object(pages, site, kwargs, t1, t2) ==
    get_object_or_404({r \in live(pages, t1, t2) :
                          r.site = site /\ r.slug = kwargs.page_slug})

\* DetailView.get of PageDetailView
PageDetailView_get(pages, site, kwargs, reads) ==
    LET found == PageDetailView_get_object(pages, site, kwargs, reads[1], reads[2])
    IN IF found.raised THEN HttpResponseNotFound ELSE HttpResponse(found.object)

\* ArticleDetailView.get_object, its live() reading the clock at t1 and t2
ArticleDetailView_get_object(articles, site, kwargs, t1, t2) ==
    get_object_or_404({r \in live(articles, t1, t2) :
                          /\ r.site = site
                          /\ r.section.slug = kwargs.section_slug
                          /\ r.slug = kwargs.article_slug})

\* ArticleDetailView.get: the object is looked up, a request that does not
\* name the series of the object is redirected, and DetailView.get looks the
\* object up again
ArticleDetailView_get(articles, site, kwargs, reads) ==
    LET first == ArticleDetailView_get_object(articles, site, kwargs,
                                              reads[1], reads[2])
        again == ArticleDetailView_get_object(articles, site, kwargs,
                                              reads[3], reads[4])
    IN IF first.raised THEN HttpResponseNotFound
       ELSE IF /\ ~IsNone(first.object.series)
               /\ \/ "series_slug" \notin DOMAIN kwargs
                  \/ kwargs.series_slug # first.object.series.slug
       THEN HttpResponsePermanentRedirect(get_absolute_url(first.object))
       ELSE IF again.raised THEN HttpResponseNotFound
       ELSE HttpResponse(again.object)

\* the handler of the path on the site, with the values of its clock reads
Dispatch(tables, site, path, reads) ==
    LET match == resolve(path)
    IN CASE match.view = "landing_page" ->
                PageDetailView_get(tables.page, site, match.kwargs, reads)
         [] match.view \in {"article_page", "article_series_page"} ->
                ArticleDetailView_get(tables.article, site, match.kwargs, reads)
         [] OTHER -> HttpResponseNotFound

\* the sites of the installation
Sites == {1, 2}

\* pages with the slug "p": of either site, in each status, unpublished or
\* published at tick 1 or 2, without expiry or expiring at tick 2 or 3
PageRows ==
    [site : Sites,
     slug : {"p"},
     status : {Status_WITHHELD, Status_USABLE, Status_CANCELLED},
     date_published : {None, DateTimeAt(1), DateTimeAt(2)},
     expires : {None, DateTimeAt(2), DateTimeAt(3)}]

\* articles with the slug "a" in the section "s", in the series "r" or in none
ArticleRows ==
    [site : Sites,
     section : {[slug |-> "s"]},
     slug : {"a"},
     series : {None, [kind |-> "ArticleSeries", slug |-> "r"]},
     status : {Status_WITHHELD, Status_USABLE},
     date_published : {None, DateTimeAt(1)},
     expires : {None, DateTimeAt(2)}]

\* the tables of the site: one page, or one article
Tables ==
    {[page |-> {p}, article |-> {}] : p \in PageRows}
        \cup {[page |-> {}, article |-> {a}] : a \in ArticleRows}

\* the paths the client asks for
Paths ==
    {reverse("landing_page", [page_slug |-> "p"]),
     reverse("landing_page", [page_slug |-> "q"]),
     reverse("article_page", [section_slug |-> "s", article_slug |-> "a"]),
     reverse("article_series_page",
             [section_slug |-> "s", series_slug |-> "r", article_slug |-> "a"]),
     reverse("article_series_page",
             [section_slug |-> "s", series_slug |-> "x", article_slug |-> "a"])}

InitViews ==
    /\ pc = "call"
    /\ call = NoCall
    /\ obj = NoObject
    /\ ret = NoValue
    /\ exc = "none"
    /\ defined = <<>>
    /\ registry = EmptyDict
    /\ renders = 0
    /\ threads = [t \in Threads |-> IdleThread]
    /\ now = 0
    /\ records \in Tables
    /\ request = NoRequest
    /\ response = NoResponse

\* the site handles the request for the path: the clock may tick once while
\* it does, after the k-th of the clock reads of the handler
Handle(site, path, hops) ==
    /\ request.n < MaxRequests
    /\ \E k \in 0..3 :
          /\ k # 0 => now < MaxTime
          /\ LET reads == [i \in 1..4 |-> IF k # 0 /\ i > k THEN now + 1 ELSE now]
             IN response' = Dispatch(records, site, path, reads)
          /\ now' = IF k = 0 THEN now ELSE now + 1
    /\ request' = [n |-> request.n + 1, site |-> site, path |-> path, hops |-> hops]
    /\ UNCHANGED <<caller, defined, registry, threads, records>>

\* a client asks a site for a path
Get == \E site \in Sites, path \in Paths : Handle(site, path, 0)

\* the client follows the redirect it was answered with
FollowRedirect ==
    /\ response.status = 301
    /\ Handle(request.site, response.location, request.hops + 1)

\* the clock ticks
Tick ==
    /\ now < MaxTime
    /\ now' = now + 1
    /\ UNCHANGED <<caller, defined, registry, threads, records, request, response>>

NextViews ==
    \/ Get
    \/ FollowRedirect
    \/ Tick

SpecViews == InitViews /\ [][NextViews]_vars

---------------------------------------------------------------------------
(* The order of the articles of a series (Article.save; Meta               *)
(* order_with_respect_to = "series").  The table of articles is the         *)
(* sequence of its rows, the primary key of a row being its index; the      *)
(* field order of a row is the column _order.                               *)

\* the series of the site
SeriesRows == {[kind |-> "ArticleSeries", slug |-> "r"],
               [kind |-> "ArticleSeries", slug |-> "t"]}

\* the primary keys of the articles of the series (of the articles without
\* series when series is None)
ArticlesOf(articles, series) ==
    {i \in 1..Len(articles) : articles[i].series = series}

\* the _order Django gives a row it inserts: one more than the greatest
\* _order of the rows with the same series, 0 when there is none
InsertOrder(articles, series) ==
    IF ArticlesOf(articles, series) = {} THEN 0
    ELSE 1 + CHOOSE m \in {articles[i].order : i \in ArticlesOf(articles, series)} :
                 \A i \in ArticlesOf(articles, series) : articles[i].order <= m

\* series.get_article_order(): the primary keys of the articles of the
\* series sorted by _order; rows with equal _order come in any order, so
\* this is the set of the lists the query may return
get_article_order(articles, series) ==
    LET ids == ArticlesOf(articles, series)
    IN {l \in [1..Cardinality(ids) -> ids] :
           /\ \A a, b \in 1..Cardinality(ids) : a # b => l[a] # l[b]
           /\ \A a, b \in 1..Cardinality(ids) :
                  a < b => articles[l[a]].order <= articles[l[b]].order}

\* series.set_article_order(id_list): _order of each article of the list
\* becomes its index in the list, counted from 0
set_article_order(articles, id_list) ==
    [i \in 1..Len(articles) |->
        IF \E a \in 1..Len(id_list) : id_list[a] = i
        THEN [articles[i] EXCEPT
                 !.order = (CHOOSE a \in 1..Len(id_list) : id_list[a] = i) - 1]
        ELSE articles[i]]

\* the _order Article.save assigns to an existing article, given the value
\* it was loaded with: a falsy _order in a series is taken as not assigned
SavedOrder(articles, series, order) ==
    IF ~IsNone(series) /\ order = 0
    THEN Cardinality(ArticlesOf(articles, series)) + 1
    ELSE IF IsNone(series) THEN 0
    ELSE order

InitOrder ==
    /\ pc = "call"
    /\ call = NoCall
    /\ obj = NoObject
    /\ ret = NoValue
    /\ exc = "none"
    /\ defined = <<>>
    /\ registry = EmptyDict
    /\ renders = 0
    /\ threads = [t \in Threads |-> IdleThread]
    /\ now = 0
    /\ records = <<>>
    /\ request = NoRequest
    /\ response = NoResponse

\* Article(series=...).save() of a new article: "if not self.id" hands over
\* to Model.save, which inserts the row
CreateArticle ==
    /\ Len(records) < MaxArticles
    /\ \E series \in {None} \cup SeriesRows :
          records' = Append(records, [series |-> series,
                                      order |-> InsertOrder(records, series)])
    /\ UNCHANGED <<caller, defined, registry, threads, now, request, response>>

\* an existing article is loaded, its series is kept, changed or removed,
\* and it is saved: Article.save sets _order, updates the row and resets
\* the order of the series of the article
SaveArticle ==
    /\ \E id \in 1..Len(records), series \in {None} \cup SeriesRows :
          LET saved == [records EXCEPT ![id] =
                           [series |-> series,
                            order |-> SavedOrder(records, series, records[id].order)]]
          IN IF IsNone(series)
             THEN records' = saved
             ELSE \E id_list \in get_article_order(saved, series) :
                      records' = set_article_order(saved, id_list)
    /\ UNCHANGED <<caller, defined, registry, threads, now, request, response>>

NextOrder ==
    \/ CreateArticle
    \/ SaveArticle

SpecOrder == InitOrder /\ [][NextOrder]_vars

---------------------------------------------------------------------------
(* Properties *)

Returned == pc \in {"returned", "constructed", "rendered"}
Called(classes) == pc # "call" /\ call.fn \in classes
Yielded(classes) == obj.kind = "object" /\ obj.cls \in classes
Rendered(classes) == pc = "rendered" /\ obj.cls \in classes

\* the string is rejected by the URL validator
Rejected(v) == validate_http_url(v.chars).raised

\* C1: validate_http_url returns its input unchanged for every string that
\* parses with a non-empty scheme starting with "http" and a non-empty
\* network location, and fails with a validation error, returning nothing,
\* for every other string.
C1_ValidatorContract ==
    Called({"validate_http_url"}) =>
        LET p == urlparse(call.value)
            accepted == /\ p.scheme # <<>>
                        /\ p.netloc # <<>>
                        /\ StartsWith(p.scheme, <<"h", "t", "t", "p">>)
        IN /\ accepted => pc = "returned" /\ exc = "none" /\ ret = PyStr(call.value)
           /\ ~accepted => pc = "raised" /\ exc = "ValueError" /\ ret = NoValue

\* a URL with a leading space is accepted and handed back exactly as given
C1_Witness ==
    /\ pc = "returned"
    /\ call.fn = "validate_http_url"
    /\ call.value = <<" ", "h", "t", "t", "p", ":", "/", "/", "a">>
    /\ ret = PyStr(call.value)

\* C2: constructing a structured property whose secure_url has scheme "http"
\* fails with a validation error.
C2_SecureUrlRequiresHttps ==
    ( /\ Called(StructuredPropertyClasses)
      /\ Truthy(call.kwargs.secure_url)
      /\ urlparse(call.kwargs.secure_url.chars).scheme = <<"h", "t", "t", "p">> )
    => pc = "raised" /\ exc = "ValueError" /\ obj = NoObject

\* the url and secure_url values an object holds
UrlValues(o) ==
    {o.fields[k] : k \in {"url", "secure_url"} \cap Range(fields(o.cls))}

\* C3: a construction with an invalid url or secure_url fails and yields no
\* object, every object a constructor yields holds url and secure_url values
\* that are absent or satisfy the URL validator, and str() raises nothing.
C3_ValidationAtConstruction ==
    /\ ( /\ Called(StructuredPropertyClasses \cup OpenGraphClasses \cup ThingClasses)
         /\ \E k \in {"url", "secure_url"} \cap DOMAIN call.kwargs :
               Truthy(call.kwargs[k]) /\ Rejected(call.kwargs[k]) )
       => pc = "raised" /\ obj = NoObject
    /\ obj.kind = "object" => \A v \in UrlValues(obj) : Truthy(v) => ~Rejected(v)
    /\ pc = "rendered" => exc = "none"

\* C4: constructing a Schema.org object with a non-empty url that the URL
\* validator rejects fails and yields no object.
C4_SchemaUrlValidated ==
    ( /\ Called(ThingClasses)
      /\ Truthy(call.kwargs.url)
      /\ Rejected(call.kwargs.url) )
    => pc = "raised" /\ exc = "ValueError" /\ obj = NoObject

FixedType(cls) ==
    CASE cls = "OGArticle" -> <<"a", "r", "t", "i", "c", "l", "e">>
      [] cls = "OGBook" -> <<"b", "o", "o", "k">>
      [] cls = "OGProfile" -> <<"p", "r", "o", "f", "i", "l", "e">>

\* the lines of a rendering that carry the property
Lines(out, property) == SelectSeq(out, LAMBDA t : t.property = property)

\* C5: after construction the type of an OGArticle, OGBook or OGProfile is
\* the fixed value of its class, whatever the caller passed, and the
\* rendering has exactly one og:type line, carrying that value.
C5_SubtypeForcesType ==
    Yielded({"OGArticle", "OGBook", "OGProfile"}) =>
        /\ obj.fields.type = PyStr(FixedType(obj.cls))
        /\ pc = "rendered" =>
             Lines(ret, "og:type") =
                 <<[property |-> "og:type", content |-> FixedType(obj.cls)]>>

C5_Witness ==
    /\ Rendered({"OGBook"})
    /\ call.kwargs.type = PyStr(<<"x">>)
    /\ obj.fields.type = PyStr(<<"b", "o", "o", "k">>)

\* C6: a StructuredProperty of the base class, whose prefix is empty,
\* renders to the empty string whatever its type, url and secure_url.
C6_EmptyPrefixRendersNothing ==
    Rendered({"StructuredProperty"}) => ret = <<>>

C6_Witness ==
    /\ Rendered({"StructuredProperty"})
    /\ Truthy(obj.fields.type) /\ Truthy(obj.fields.url) /\ Truthy(obj.fields.secure_url)
    /\ ret = <<>>

\* the rendering a structured property with a prefix is said to have: the
\* og:{prefix} line carrying url, then one og:{prefix}:{field} line for every
\* other declared field that Emitted selects, in declaration order
PropertyLines(o, Emitted(_)) ==
    LET p == CASE o.cls = "AudioProp" -> "audio"
               [] o.cls = "VideoProp" -> "video"
               [] o.cls = "ImageProp" -> "image"
        rest == SelectSeq(fields(o.cls), LAMBDA a : a # "url" /\ Emitted(o.fields[a]))
    IN <<[property |-> "og:" \o p, content |-> escape(StrOf(o.fields.url))]>>
       \o [i \in 1..Len(rest) |->
             [property |-> "og:" \o p \o ":" \o rest[i],
              content |-> escape(StrOf(o.fields[rest[i]]))]]

NotNone(v) == ~IsNone(v)

\* C7 as stated: the rendering of a structured property with a prefix is the
\* og:{prefix} line followed by one line per remaining non-null field.
C7_OneLinePerNonNullField ==
    Rendered({"AudioProp", "VideoProp", "ImageProp"}) =>
        ret = PropertyLines(obj, NotNone)

\* C7, amended: the rendering of a structured property with a prefix is the
\* og:{prefix} line carrying url, followed by one og:{prefix}:{field} line for
\* every remaining declared field whose value is truthy (not null, not the
\* empty string, not zero), in declaration order; it has no og:{prefix}:url
\* line and no line for _prefix.
C7_OneLinePerTruthyField ==
    Rendered({"AudioProp", "VideoProp", "ImageProp"}) =>
        /\ ret = PropertyLines(obj, Truthy)
        /\ \A i \in 1..Len(ret) :
             ret[i].property \notin
                 {"og:" \o p \o ":" \o k : p \in {"audio", "video", "image"},
                                           k \in {"url", "_prefix"}}

C7_Witness ==
    /\ Rendered({"ImageProp"})
    /\ obj.fields.width = PyInt(0)
    /\ obj.fields.alt = PyStr(<<>>)
    /\ Truthy(obj.fields.secure_url) /\ Truthy(obj.fields.height)
    /\ Len(ret) = 3

\* C8: the rendering of every Open Graph object begins with the og:url line
\* carrying the object's url (converted with str() and HTML-escaped).
C8_UrlLineFirst ==
    Rendered(OpenGraphClasses) =>
        /\ Len(ret) >= 1
        /\ ret[1] = [property |-> "og:url", content |-> escape(StrOf(obj.fields.url))]
        /\ \A i \in 2..Len(ret) : ret[i].property # "og:url"

C8_Witness ==
    /\ Rendered({"OGArticle"})
    /\ obj.fields.url = PyStr(HttpsQuery)
    /\ ret[1].content # HttpsQuery
    /\ Len(ret) > 4

C9_BasicFields == {"description", "determiner", "locale", "site_name", "title", "type"}
C9_ListFields == {"audio", "image", "video", "locale_alternate"}

\* the og:{field} lines of the basic fields that Emitted selects, in
\* declaration order
BasicLines(o, Emitted(_)) ==
    LET basic == SelectSeq(fields(o.cls),
                           LAMBDA a : a \in C9_BasicFields /\ Emitted(o.fields[a]))
    IN [i \in 1..Len(basic) |->
          [property |-> "og:" \o basic[i], content |-> escape(StrOf(o.fields[basic[i]]))]]

\* the lines of a rendering that belong to basic fields
BasicLinesOf(out) ==
    SelectSeq(out, LAMBDA t : t.property \in {"og:" \o b : b \in C9_BasicFields})

\* no og: line for a field that is neither basic, nor url, nor a list
NoOtherOgLine(o, out) ==
    \A a \in Range(fields(o.cls)) \ (C9_BasicFields \cup C9_ListFields \cup {"url"}) :
        \A i \in 1..Len(out) : out[i].property # "og:" \o a

\* C9 as stated: one og:{field} line for every non-null basic field.
C9_OneLinePerNonNullBasicField ==
    Rendered(OpenGraphClasses) =>
        /\ BasicLinesOf(ret) = BasicLines(obj, NotNone)
        /\ NoOtherOgLine(obj, ret)

\* C9, amended: OpenGraph rendering emits exactly one og:{field} line for
\* every field among description, determiner, locale, site_name, title, type
\* whose value is truthy (not null and not the empty string), none for a null
\* or empty one, in declaration order, and no og: line for any other field
\* than url and the structured-property and locale_alternate lists.
C9_OneLinePerTruthyBasicField ==
    Rendered(OpenGraphClasses) =>
        /\ BasicLinesOf(ret) = BasicLines(obj, Truthy)
        /\ NoOtherOgLine(obj, ret)

C9_Witness ==
    /\ Rendered({"OpenGraph"})
    /\ obj.fields.title = PyStr(<<>>)
    /\ obj.fields.description = PyStr(<<"d", "&">>)
    /\ Truthy(obj.fields.type) /\ Truthy(obj.fields.locale)
    /\ IsNone(obj.fields.determiner)
    /\ Len(BasicLinesOf(ret)) = 3

\* C10: an Open Graph object constructed with a bare ImageProp as image holds
\* the one-element list of that ImageProp; constructed with a list it holds
\* that list; so image is null or a list after construction.
C10_ImageIsListOrNull ==
    Yielded(OpenGraphClasses) =>
        LET given == call.kwargs.image
        IN /\ given.kind = "object" => obj.fields.image = PyList(<<given>>)
           /\ given.kind = "list" => obj.fields.image = given
           /\ obj.fields.image.kind \in {"NoneType", "list"}

C10_Witness ==
    /\ pc = "constructed"
    /\ obj.cls = "OpenGraph"
    /\ call.kwargs.image = Image1
    /\ obj.fields.image = PyList(<<Image1>>)

\* the properties of the lines that render an ImageProp
ImageProperties == {"og:image"} \cup {"og:image:" \o k : k \in Range(ImagePropFields)}

\* C11: the rendering of an Open Graph object whose image is a list contains
\* the renderings of the list's items, one after the other in list order and
\* with nothing between them, and has no other og:image line; the rendering
\* of an item is its og:image line followed by its og:image:{field} lines.
C11_ImagesInListOrder ==
    (Rendered(OpenGraphClasses) /\ obj.fields.image.kind = "list") =>
        LET images == obj.fields.image.items
            expected == Concat([i \in 1..Len(images) |->
                                  PropertyLines(images[i], Truthy)])
        IN /\ SelectSeq(ret, LAMBDA t : t.property \in ImageProperties) = expected
           /\ \E k \in 0..Len(ret) : SubSeq(ret, k + 1, k + Len(expected)) = expected

C11_Witness ==
    /\ Rendered({"OpenGraph"})
    /\ obj.fields.image = PyList(<<Image2, Image1>>)
    /\ Len(Lines(ret, "og:image")) = 2
    /\ \E i \in 1..Len(ret) :
          /\ ret[i].property = "og:image:alt"
          /\ \E j \in 1..(i - 1) : ret[j].property = "og:image:width"

\* C12: an OpenGraph constructed with a locale_alternate list of n entries
\* exists and is rendered with exactly n og:locale_alternate lines, the i-th
\* carrying the i-th entry of the list.
C12_OneTagPerAlternateLocale ==
    (Called({"OpenGraph"}) /\ "locale_alternate" \in DOMAIN call.kwargs) =>
        LET entries == call.kwargs.locale_alternate.items
        IN /\ pc # "raised"
           /\ pc = "rendered" =>
                Lines(ret, "og:locale_alternate") =
                    [i \in 1..Len(entries) |->
                       [property |-> "og:locale_alternate",
                        content |-> escape(entries[i].chars)]]

\* the namespace of each property a rendering can hold
OgProperties ==
    {"og:" \o k : k \in Range(OpenGraphFields) \cup {"locale_alternate"}}
    \cup ImageProperties
OwnProperties(cls) ==
    CASE cls = "OGArticle" ->
           {"article:" \o k : k \in Range(OGArticleFields) \ Range(OpenGraphFields)}
      [] cls = "OGBook" ->
           {"book:" \o k : k \in Range(OGBookFields) \ Range(OpenGraphFields)}
      [] cls = "OGProfile" ->
           {"profile:" \o k : k \in Range(OGProfileFields) \ Range(OpenGraphFields)}

\* C13: the rendering of an OGArticle, OGBook or OGProfile is a block of og:
\* lines, which is what the renderer of the base class yields for the object
\* and is never empty, followed by a block of lines in the namespace of the
\* subclass: no og: line follows an article:, book: or profile: line.
C13_ParentBlockFirst ==
    Rendered({"OGArticle", "OGBook", "OGProfile"}) =>
        /\ \E k \in 1..Len(ret) :
             /\ \A i \in 1..k : ret[i].property \in OgProperties
             /\ \A i \in (k + 1)..Len(ret) : ret[i].property \in OwnProperties(obj.cls)
             /\ SubSeq(ret, 1, k) = OpenGraph_str(obj)
        /\ \A i, j \in 1..Len(ret) :
             (ret[i].property \in OwnProperties(obj.cls) /\ ret[j].property \in OgProperties)
                 => j < i

C13_Witness ==
    /\ Rendered({"OGArticle"})
    /\ Len(ret) >= 6
    /\ ret[Len(ret)].property = "article:tag"
    /\ ret[Len(ret) - 1].property = "article:author"
    /\ \E i \in 1..Len(ret) : ret[i].property = "og:image"
    /\ \E i \in 1..Len(ret) : ret[i].property = "article:section"

\* the lines a list field is said to yield: one per entry, in list order
EntryLines(property, v) ==
    IF IsNone(v) THEN <<>>
    ELSE [i \in 1..Len(v.items) |->
            [property |-> property, content |-> escape(StrOf(v.items[i]))]]

\* the line a scalar field is said to yield when it is not null
ScalarLine(property, v) ==
    IF IsNone(v) THEN <<>>
    ELSE <<[property |-> property, content |-> escape(StrOf(v))]>>

\* C14: the rendering of an OGArticle has exactly one article:{field} line for
\* each of published_time, modified_time, expiration_time and section that is
\* not null, carrying the field's value, and none for a null one; it has one
\* article:author line per entry of author and one article:tag line per entry
\* of tag, in the order of the list.
C14_ArticleBlock ==
    Rendered({"OGArticle"}) =>
        /\ \A k \in {"published_time", "modified_time", "expiration_time", "section"} :
             Lines(ret, "article:" \o k) = ScalarLine("article:" \o k, obj.fields[k])
        /\ \A k \in {"author", "tag"} :
             Lines(ret, "article:" \o k) = EntryLines("article:" \o k, obj.fields[k])

C14_Witness ==
    /\ Rendered({"OGArticle"})
    /\ call.kwargs.author = PyList(<<Jane, PyStr(HttpsA)>>)
    /\ call.kwargs.tag = PyList(<<PyStr(<<"t">>), PyStr(<<"u">>)>>)
    /\ IsNone(obj.fields.published_time)
    /\ Len(Lines(ret, "article:section")) = 1
    /\ Len(Lines(ret, "article:author")) = 2
    /\ Lines(ret, "article:tag") =
         <<[property |-> "article:tag", content |-> <<"t">>],
           [property |-> "article:tag", content |-> <<"u">>]>>

\* C15: the rendering of an OGBook has exactly one book:isbn and one
\* book:release_date line when the field is not null, one book:author line
\* per entry of the author list, carrying that entry, and one book:tag line
\* per entry of the tag list, in the order of the list.
C15_BookBlock ==
    Rendered({"OGBook"}) =>
        /\ \A k \in {"isbn", "release_date"} :
             Lines(ret, "book:" \o k) = ScalarLine("book:" \o k, obj.fields[k])
        /\ \A k \in {"author", "tag"} :
             Lines(ret, "book:" \o k) = EntryLines("book:" \o k, obj.fields[k])

\* C16: the rendering of an OGProfile has exactly one profile:{field} line for
\* each of first_name, last_name, username and gender whose value is truthy,
\* carrying that value, and none for a field that is null, the empty string
\* or zero.
C16_ProfileBlockTruthy ==
    Rendered({"OGProfile"}) =>
        \A k \in {"first_name", "last_name", "username", "gender"} :
            Lines(ret, "profile:" \o k) =
                IF Truthy(obj.fields[k])
                THEN <<[property |-> "profile:" \o k,
                        content |-> escape(StrOf(obj.fields[k]))]>>
                ELSE <<>>

C16_Witness ==
    /\ Rendered({"OGProfile"})
    /\ obj.fields.first_name = PyStr(<<>>)
    /\ obj.fields.gender = PyInt(0)
    /\ IsNone(obj.fields.last_name)
    /\ Lines(ret, "profile:username") =
         <<[property |-> "profile:username", content |-> <<"u">>]>>
    /\ ret[Len(ret)].property = "profile:username"
    /\ ret[Len(ret) - 1].property \in OgProperties

\* the ISO-8601 strings of the dates passed to the constructors:
\* "2022-06-30", "2022-06-30T12:00:00", "2023-01-05T09:07:03"
Iso8601(v) ==
    CASE v = June30 -> <<"2", "0", "2", "2", "-", "0", "6", "-", "3", "0">>
      [] v = June30Noon -> <<"2", "0", "2", "2", "-", "0", "6", "-", "3", "0", "T",
                             "1", "2", ":", "0", "0", ":", "0", "0">>
      [] v = Jan5Morning -> <<"2", "0", "2", "3", "-", "0", "1", "-", "0", "5", "T",
                              "0", "9", ":", "0", "7", ":", "0", "3">>

\* the namespace of the lines of an Open Graph subclass
Namespace(cls) ==
    CASE cls = "OGArticle" -> "article"
      [] cls = "OGBook" -> "book"
      [] cls = "OGProfile" -> "profile"

\* the date fields of the Open Graph subclasses
DateFields(cls) ==
    CASE cls = "OGArticle" -> {"published_time", "modified_time", "expiration_time"}
      [] cls = "OGBook" -> {"release_date"}

\* C17: once an OGArticle or OGBook is constructed, a date field given as a
\* date holds the date-only ISO-8601 string, given as a datetime it holds the
\* ISO-8601 string with date and time, and given as a string it holds that
\* string; the rendering has one line for the field, carrying the stored
\* string.
C17_DatesNormalizedAtConstruction ==
    Yielded({"OGArticle", "OGBook"}) =>
        \A k \in DateFields(obj.cls) :
            LET given == call.kwargs[k]
                stored == obj.fields[k]
            IN /\ IsDate(given) => stored = PyStr(Iso8601(given))
               /\ given.kind = "date" => Len(stored.chars) = 10
               /\ given.kind = "datetime" => Len(stored.chars) = 19 /\ stored.chars[11] = "T"
               /\ given.kind = "str" => stored = given
               /\ (pc = "rendered" /\ ~IsNone(given)) =>
                     Lines(ret, Namespace(obj.cls) \o ":" \o k) =
                         <<[property |-> Namespace(obj.cls) \o ":" \o k,
                            content |-> escape(stored.chars)]>>

C17_Witness ==
    /\ Rendered({"OGArticle"})
    /\ call.kwargs.published_time = June30Noon
    /\ call.kwargs.modified_time = June30
    /\ obj.fields.published_time = PyStr(Iso8601(June30Noon))
    /\ obj.fields.modified_time = PyStr(Iso8601(June30))
    /\ \E i \in 1..Len(ret) :
          /\ ret[i].property = "article:published_time"
          /\ ret[i].content = Iso8601(June30Noon)

\* C18: once an OGArticle is constructed, its section is null or a string
\* and every entry of its author list is a string: a model instance passed
\* as section or as an entry of author has been replaced by its str().
C18_ArticleReferencesCoerced ==
    Yielded({"OGArticle"}) =>
        /\ obj.fields.section.kind \in {"NoneType", "str"}
        /\ call.kwargs.section.kind = "Model" =>
             obj.fields.section = PyStr(call.kwargs.section.str)
        /\ obj.fields.author.kind = "list" =>
             \A i \in 1..Len(obj.fields.author.items) :
                 obj.fields.author.items[i].kind = "str"

\* C19: once a CreativeWorkSchema or an object of one of its subclasses is
\* constructed, each of dateCreated, datePublished, dateModified and expires
\* is null or a string, a date or datetime passed for it having been replaced
\* by its ISO-8601 string, and author is not a model instance.
C19_CreativeWorkNormalized ==
    Yielded(CreativeWorkClasses) =>
        /\ \A k \in {"dateCreated", "datePublished", "dateModified", "expires"} :
             /\ obj.fields[k].kind \in {"NoneType", "str"}
             /\ IsDate(call.kwargs[k]) => obj.fields[k] = PyStr(Iso8601(call.kwargs[k]))
        /\ obj.fields.author.kind # "Model"

\* the class that carries each label
Carrier(label) ==
    CASE label = "Thing" -> "ThingSchema"
      [] label = "CreativeWork" -> "CreativeWorkSchema"
      [] label = "Article" -> "ArticleSchema"
      [] label = "Person" -> "PersonSchema"
      [] label = "MediaObject" -> "MediaObjectSchema"
      [] label = "WebPage" -> "WebPageSchema"

SixLabels == {"Thing", "CreativeWork", "Article", "Person", "MediaObject", "WebPage"}

\* C20: once the module is loaded, ThingSchema.get_class_for_label returns
\* for each of the six labels the class that carries it; every subclass is
\* still registered under its own label, the labels are pairwise distinct and
\* the registry holds no class twice.
C20_RegistryLookup ==
    /\ ( /\ pc = "returned"
         /\ call.fn = "get_class_for_label"
         /\ call.cls = "ThingSchema"
         /\ call.label \in SixLabels )
       => ret = Type(Carrier(call.label))
    /\ pc # "import" =>
         /\ \A i \in 2..Len(ClassStatements) :
              /\ ClassStatements[i].label \in DOMAIN registry
              /\ registry[ClassStatements[i].label] = ClassStatements[i].name
         /\ \A l, m \in DOMAIN registry : registry[l] = registry[m] => l = m
         /\ Cardinality({ClassStatements[i].label : i \in 1..Len(ClassStatements)}) = 6

C20_Witness ==
    /\ pc = "returned"
    /\ call = [fn |-> "get_class_for_label", cls |-> "ThingSchema", label |-> "WebPage"]
    /\ ret = Type("WebPageSchema")
    /\ Cardinality(DOMAIN registry) = 5

\* C21: a lookup of a label that no class is registered under returns
\* ThingSchema, whichever class of the hierarchy it is called on, and no
\* lookup raises.
C21_UnknownLabelGivesBase ==
    (pc \in {"returned", "raised"} /\ call.fn = "get_class_for_label") =>
        /\ pc = "returned" /\ exc = "none"
        /\ call.label \notin DOMAIN registry => ret = Type("ThingSchema")

\* the keys of a JSON object, in order
Keys(members) == [i \in 1..Len(members) |-> members[i].key]

\* the member of a JSON object under a key
Member(members, key) == members[CHOOSE i \in 1..Len(members) : members[i].key = key]

\* the label a class carries
LabelCarriedBy(cls) == CHOOSE l \in SixLabels : Carrier(l) = cls

\* the names of the fields of an object that are not null, in declaration
\* order
NonNullFields(o) == SelectSeq(fields(o.cls), LAMBDA k : ~IsNone(o.fields[k]))

\* C23: the rendering of a Schema.org object is one script element with id
\* "schema-data" and type application/ld+json; the keys of its JSON object
\* are the names of the object's non-null fields in declaration order, then
\* "@context", whose value is "https://schema.org", then "@type", whose value
\* is the label of the object's class.
C23_JsonLdScript ==
    Rendered(ThingClasses) =>
        /\ exc = "none"
        /\ ret.id = "schema-data"
        /\ ret.type = <<"a", "p", "p", "l", "i", "c", "a", "t", "i", "o", "n", "/",
                        "l", "d", "+", "j", "s", "o", "n">>
        /\ Keys(ret.json) = NonNullFields(obj) \o <<"@context", "@type">>
        /\ Member(ret.json, "@context").chars =
             <<"h", "t", "t", "p", "s", ":", "/", "/", "s", "c", "h", "e", "m", "a", ".",
               "o", "r", "g">>
        /\ Member(ret.json, "@type").chars = LabelChars(LabelCarriedBy(obj.cls))

C23_Witness ==
    /\ Rendered({"ThingSchema"})
    /\ Keys(ret.json) = <<"name", "description", "url", "@context", "@type">>
    /\ Member(ret.json, "@type").chars = <<"T", "h", "i", "n", "g">>
    /\ Member(ret.json, "name").chars = <<"n">>
    /\ Member(ret.json, "description").chars = <<"d">>
    /\ IsNone(obj.fields.image)

\* the character a JSON escape stands for: the letter behind the backslash,
\* or the four hexadecimal digits behind "\u"
Unescaped(code) ==
    CASE code = <<"n">> -> "\n"
      [] code = <<"t">> -> "\t"
      [] code = <<"r">> -> "\r"
      [] code = <<"0", "0", "2", "6">> -> "&"
      [] code = <<"0", "0", "3", "C">> -> "<"
      [] code = <<"0", "0", "3", "E">> -> ">"
      [] OTHER -> code[1]

\* the string a JSON parser reads from the text between the quotes
RECURSIVE JsonDecode(_)
JsonDecode(s) ==
    IF s = <<>> THEN <<>>
    ELSE IF s[1] # "\\" THEN <<s[1]>> \o JsonDecode(Tail(s))
    ELSE IF s[2] = "u"
    THEN <<Unescaped(SubSeq(s, 3, 6))>> \o JsonDecode(SubSeq(s, 7, Len(s)))
    ELSE <<Unescaped(<<s[2]>>)>> \o JsonDecode(SubSeq(s, 3, Len(s)))

\* a JSON object as a parser reads it
RECURSIVE Parsed(_)
Parsed(members) ==
    [i \in 1..Len(members) |->
       IF members[i].kind = "dict"
       THEN [key |-> members[i].key, kind |-> "dict",
             members |-> Parsed(members[i].members)]
       ELSE [key |-> members[i].key, kind |-> "str",
             chars |-> JsonDecode(members[i].chars)]]

\* the mapping a Schema.org object is said to render to: a nested schema
\* object as the mapping of its own conversion, any other non-null value as
\* the tag-stripped, HTML-escaped string of the value
RECURSIVE Mapping(_)
Mapping(o) ==
    [i \in 1..Len(NonNullFields(o)) |->
       LET k == NonNullFields(o)[i]
       IN IF o.fields[k].kind = "object"
          THEN [key |-> k, kind |-> "dict", members |-> Mapping(o.fields[k])]
          ELSE [key |-> k, kind |-> "str",
                chars |-> escape(strip_tags(StrOf(o.fields[k])))]]
    \o <<[key |-> "@context", kind |-> "str",
          chars |-> <<"h", "t", "t", "p", "s", ":", "/", "/", "s", "c", "h", "e", "m",
                      "a", ".", "o", "r", "g">>],
         [key |-> "@type", kind |-> "str", chars |-> LabelChars(LabelCarriedBy(o.cls))]>>

\* C24: in the rendering of a Schema.org object a field that holds a nested
\* schema object is a nested mapping, that of the nested object's own
\* conversion with its own @type, and every other field reads as the
\* tag-stripped, HTML-escaped string of its value.
C24_NestedAndEscapedValues ==
    Rendered(ThingClasses) => Parsed(ret.json) = Mapping(obj)

\* a step of the caller that is a str() call on the object
Rendering == renders' = renders + 1

RECURSIVE RegistryAfter(_)
RegistryAfter(n) ==
    IF n = 0 THEN EmptyDict
    ELSE LET c == ClassStatements[n]
         IN IF InheritsThing(SubSeq(ClassStatements, 1, n - 1), c.base)
            THEN register(RegistryAfter(n - 1), c.name, c.label)
            ELSE RegistryAfter(n - 1)

\* C22: the registry of labels is written only when a class is defined, once
\* for that class: no lookup, construction or rendering changes it; once the
\* module is loaded, under every interleaving of the threads the registry
\* stays as loaded and each get_class_for_label call returns the class it
\* returns when it is the only call.
C22_RegistryWrittenAtDefinitionOnly ==
    /\ [][registry' # registry =>
             /\ threads' = threads
             /\ Len(defined') = Len(defined) + 1
             /\ LET c == defined'[Len(defined')]
                IN /\ \A i \in 1..Len(defined) : defined[i].name # c.name
                   /\ registry' = register(registry, c.name, c.label)]_vars
    /\ [](pc = "call" =>
             /\ registry = RegistryAfter(Len(ClassStatements))
             /\ \A t \in Threads :
                   threads[t].pc = "returned" =>
                       threads[t].ret =
                           get_class_for_label(RegistryAfter(Len(ClassStatements)),
                                               threads[t].call.cls,
                                               threads[t].call.label))

\* two threads have looked the unregistered label "Event" up on different
\* classes, and each got the class it asked
C22_Witness ==
    /\ threads[1].pc = "returned"
    /\ threads[1].call.cls = "ThingSchema"
    /\ threads[1].call.label = "Event"
    /\ threads[1].ret = Type("ThingSchema")
    /\ threads[2].pc = "returned"
    /\ threads[2].call.cls = "ArticleSchema"
    /\ threads[2].call.label = "Event"
    /\ threads[2].ret = Type("ArticleSchema")

\* C30: defining a further subclass of a registered class never changes what
\* get_class_for_label returns for a label already registered; a subclass
\* that declares no label of its own leaves the entry of its base alone.
C30_SubclassKeepsRegistrations ==
    [][defined' # defined =>
          \A l \in DOMAIN registry : \A cls \in ThingClasses :
              get_class_for_label(registry', cls, l) =
                  get_class_for_label(registry, cls, l)]_vars

\* the format string with its first "{}" replaced by the text
Fill(template, text) ==
    LET at == CHOOSE i \in 1..Len(template) :
                  /\ template[i] = "{"
                  /\ \A j \in 1..(i - 1) : template[j] # "{"
    IN IF \E i \in 1..Len(template) : template[i] = "{"
       THEN SubSeq(template, 1, at - 1) \o text \o SubSeq(template, at + 2, Len(template))
       ELSE template

\* the copyright notice has been read from the content record
NoticeRead == call.fn = "copyright_notice" /\ pc # "call"

\* C28: copyright_notice is built from the first available source in the
\* order: the record's custom_copyright_notice, the author's
\* copyright_notice, the site variable copyright_notice, the fallback notice
\* of the application with the resolved holder (custom holder, else the
\* author's holder or name, else the site variable copyright_holder, else
\* the site name); the year filled in is that of publication, else that of
\* creation, else the current one.
C28_CopyrightNoticeSources ==
    NoticeRead =>
        LET w == records
            y == IntStr(IF ~IsNone(w.date_published)
                        THEN EpochYear + (w.date_published.tick \div TicksPerYear)
                        ELSE IF ~IsNone(w.date_created)
                        THEN EpochYear + (w.date_created.tick \div TicksPerYear)
                        ELSE EpochYear + (now \div TicksPerYear))
            own == w.custom_copyright_notice # <<>>
            byAuthor == ~IsNone(w.author) /\ w.author.copyright_notice # <<>>
            bySite == "copyright_notice" \in DOMAIN w.site.vars
            holder == IF w.custom_copyright_holder # <<>>
                      THEN w.custom_copyright_holder
                      ELSE IF ~IsNone(w.author)
                      THEN IF w.author.copyright_holder # <<>>
                           THEN w.author.copyright_holder
                           ELSE w.author.name
                      ELSE IF "copyright_holder" \in DOMAIN w.site.vars
                      THEN w.site.vars["copyright_holder"]
                      ELSE w.site.name
        IN /\ pc = "returned"
           /\ own => ret.chars = Fill(w.custom_copyright_notice, y)
           /\ ~own /\ byAuthor => ret.chars = Fill(w.author.copyright_notice, y)
           /\ ~own /\ ~byAuthor /\ bySite =>
                  ret.chars = Fill(w.site.vars["copyright_notice"], y)
           /\ ~own /\ ~byAuthor /\ ~bySite =>
                  ret.chars = Fill(Fill(fallback_copyright, y), escape(holder))

\* a record created in 2021 and published in 2022, with no notice of its
\* own, whose author sets neither notice nor holder, on a site without
\* variables: the fallback notice names the year 2022 and the author
C28_Witness ==
    /\ NoticeRead
    /\ records.custom_copyright_notice = <<>>
    /\ records.custom_copyright_holder = <<>>
    /\ ~IsNone(records.author)
    /\ records.author.copyright_notice = <<>>
    /\ records.author.copyright_holder = <<>>
    /\ records.site.vars = EmptyDict
    /\ ~IsNone(records.date_created)
    /\ ~IsNone(records.date_published)
    /\ ret.chars = <<"(c)", " ", "C", "o", "p", "y", "r", "i", "g", "h", "t", " ",
                     "2", "0", "2", "2", " ", "a", "&", "l", "t", ";", ".", " ",
                     "A", "l", "l", " ", "r", "i", "g", "h", "t", "s", " ",
                     "r", "e", "s", "e", "r", "v", "e", "d", ".">>

\* the step is the handling of a request
Handled == request'.n = request.n + 1

\* the record is live when the clock shows t
LiveAt(r, t) ==
    /\ r.status = Status_USABLE
    /\ ~IsNone(r.date_published)
    /\ r.date_published.tick <= t
    /\ (IsNone(r.expires) \/ r.expires.tick > t)

\* the records of the site asked that the path names
Named(req) ==
    {r \in records.page : r.site = req.site /\ req.path = <<r.slug, ".html">>}
        \cup {r \in records.article :
                 /\ r.site = req.site
                 /\ \/ req.path = <<r.section.slug, "/", r.slug, ".html">>
                    \/ /\ Len(req.path) = 6
                       /\ req.path[1] = r.section.slug
                       /\ req.path[5] = r.slug}

\* C26: a record is served exactly when it is live and belongs to the
\* current site: status usable, date_published set and not after the current
\* time, expires null or after the current time; a withheld, cancelled,
\* future, expired or foreign record is answered with 404, and a usable
\* record is visible from date_published until expires.  The current time
\* is that of the request, which lasts from the clock value now to now'.
C26_ServedWhenLive ==
    [][Handled =>
          /\ response'.status \in {200, 301, 404}
          /\ response'.status = 200 =>
                 /\ response'.object \in Named(request')
                 /\ response'.object.status = Status_USABLE
                 /\ ~IsNone(response'.object.date_published)
                 /\ response'.object.date_published.tick <= now'
                 /\ \/ IsNone(response'.object.expires)
                    \/ response'.object.expires.tick > now
          /\ response'.status = 404 =>
                 ~ \E r \in Named(request') : LiveAt(r, now) /\ LiveAt(r, now')
          /\ now' = now =>
                 (response'.status # 404 <=> \E r \in Named(request') : LiveAt(r, now))]_vars

\* a page is served at the very tick of its date_published, one tick before
\* it expires
C26_Witness ==
    /\ response.status = 200
    /\ response.object \in records.page
    /\ response.object.date_published = DateTimeAt(now)
    /\ response.object.expires = DateTimeAt(now + 1)

\* the canonical URL of an article in a series
Canonical(r) == <<r.section.slug, "/", r.series.slug, "/", r.slug, ".html">>

\* C27: a request for a live article of a series at a URL without the series
\* slug, or with the slug of another series, is answered with a permanent
\* redirect (301) to the canonical URL of section, series and article slugs;
\* a request at the canonical URL is served without redirect, so that
\* following redirects ends after one hop at most.
C27_SeriesRedirect ==
    /\ [][Handled =>
             \A r \in Named(request') \cap records.article :
                 (~IsNone(r.series) /\ LiveAt(r, now) /\ LiveAt(r, now')) =>
                     IF request'.path = Canonical(r)
                     THEN response' = [status |-> 200, object |-> r]
                     ELSE response' = [status |-> 301, location |-> Canonical(r)]]_vars
    /\ [](request.hops <= 1)

\* the client was redirected once and is served the article at the URL that
\* names its series
C27_Witness ==
    /\ request.hops = 1
    /\ response.status = 200
    /\ response.object \in records.article
    /\ request.path = <<"s", "/", "r", "/", "a", ".html">>

\* the step saves an existing article and leaves the series of every
\* article as it was
SavedInPlace ==
    /\ Len(records') = Len(records)
    /\ \A i \in 1..Len(records) : records'[i].series = records[i].series

\* C29: saving an existing article without changing its series keeps the
\* relative order of the articles of that series, whatever the position of
\* the article (the first included) and however often it is saved; after any
\* sequence of saves the _order values of the articles of one series are
\* pairwise distinct, and an article with no series has _order 0.
C29_SaveKeepsSeriesOrder ==
    /\ [][SavedInPlace =>
             \A i, j \in 1..Len(records) :
                 ( /\ ~IsNone(records[i].series)
                   /\ records[i].series = records[j].series
                   /\ records[i].order < records[j].order )
                 => records'[i].order < records'[j].order]_vars
    /\ [](\A i, j \in 1..Len(records) :
             ( /\ i # j
               /\ ~IsNone(records[i].series)
               /\ records[i].series = records[j].series )
             => records[i].order # records[j].order)
    /\ [](\A i \in 1..Len(records) :
             IsNone(records[i].series) => records[i].order = 0)

===========================================================================
